---- MODULE Spec2Model ----
(***************************************************************************)
(* Model of the route store and edit session of TrackingRouteDrawer        *)
(* (src/tracking_routs_drawer.py).                                         *)
(*                                                                         *)
(* State: the committed routes (self.routes), the route under             *)
(* construction (self.current_route) and the drag state (self.dragging,    *)
(* self.drag_route_idx, self.drag_point_idx).  Canvas items, labels and    *)
(* the listbox are display only and are left out, as are                   *)
(* self.drag_start_x / self.drag_start_y, which the program writes at      *)
(* line 186-187 and never reads.                                           *)
(*                                                                         *)
(* Python lists are objects: `shared` is the set of positions of          *)
(* self.routes that hold the very list object self.current_route is bound  *)
(* to, so that an in-place change of one is seen through the other.        *)
(*                                                                         *)
(* Indices are Python's: 0-based, -1 is the current-route sentinel.  A     *)
(* TLA+ sequence element k+1 is Python element k.                          *)
(*                                                                         *)
(* `last` records the handler that ran last and the path it took; a        *)
(* handler that raised has path "IndexError" (Tk reports the exception and *)
(* the event loop goes on with the state as the handler left it).          *)
(*                                                                         *)
(* `calc` holds the argument and the results of a computation that does    *)
(* not touch the object (the coordinate conversions, the arc-length        *)
(* functions, the analysis); it stays as it is while the event handlers    *)
(* run.                                                                    *)
(*                                                                         *)
(* `pow_above` is the C library of the build: pow(), which x**2 of a float *)
(* calls, keeps within one unit in the last place but need not round to    *)
(* the nearest float.  Where a square is no float, pow_above tells whether *)
(* the build gives the float above it or the float below it.               *)
(*                                                                         *)
(* `results_windows` are the results windows that are open, in the order   *)
(* show_analysis_results made them: each is what the buttons of the window *)
(* hold (the labels of the analysed routes).  `last_clustering_results` is *)
(* the attribute of that name.  Their field `at` is not in the program: it *)
(* follows the routes the labels were given to, as positions of the store  *)
(* (-1 for the current route, None for a route that is gone).              *)
(***************************************************************************)
EXTENDS Integers, Sequences, FiniteSets, TLC

VARIABLES routes, current_route, shared, dragging, drag_route_idx, drag_point_idx, last,
          results_windows, last_clustering_results, pow_above, calc

vars == <<routes, current_route, shared, dragging, drag_route_idx, drag_point_idx, last,
          results_windows, last_clustering_results, pow_above, calc>>

\* The route store, the drag state and the record of the last handler.
storevars == <<routes, current_route, shared, dragging, drag_route_idx, drag_point_idx, last>>

\* All but calc: the object's fields, the record of the last handler, the
\* results windows and the C library.
objvars == <<routes, current_route, shared, dragging, drag_route_idx, drag_point_idx, last,
             results_windows, last_clustering_results, pow_above>>

(* ------------------------------ bounds -------------------------------- *)

\* The largest number of points the store holds (current plus committed).
MaxPoints == 3

\* The grid coordinates given to the conversions are -MaxCoord .. MaxCoord.
MaxCoord == 6

\* The largest number of committed routes of a store given to the analysis.
MaxRoutes == 2

\* The largest number of points of a route given to the arc-length functions.
MaxLen == 4

\* The largest number of results windows open at a time.
MaxWindows == 2

\* The largest number of committed routes of a store that
\* extract_route_features is called on between pointer events.
MaxExtracted == 1

\* The device coordinates given to the snap to the grid are -MaxDevice .. MaxDevice.
MaxDevice == 30

\* Device positions (event.x, event.y) of the pointer events, in pixels.
\* <<8, 0>> and <<10, 0>> snap to grid point (0, 0), <<12, 0>> to (1, 0),
\* <<0, 12>> to (0, 1) and <<8, 10>> to (0, 0); <<10, 0>> and <<8, 10>> are
\* farther than the tolerance from every grid point.
Clicks == {<<8, 0>>, <<10, 0>>, <<12, 0>>, <<0, 12>>, <<8, 10>>}

(* ------------------------- program constants -------------------------- *)

grid_size == 20

origin_x == 0

origin_y == 0

click_tolerance == 8

\* Python's None in an index field; never used as an index.
None == -2

\* The result of a search that found nothing (Python's None, falsy).
NotFound == <<>>

\* No computation under way.
NoCalc == [fn |-> "none"]

(* --------------------------- coordinates ------------------------------ *)

\* Python 3 round(n / d) for integers n and d > 0: to nearest, ties to even.
\* n / d is exactly representable at a tie, and elsewhere the float error is
\* far smaller than the distance to the tie.
\* py_round_div rounding toward minus infinity, as int(n // d).
py_floor_div(n, d) == n \div d

py_round_div(n, d) ==
    LET q == n \div d
        r == n % d
    IN  IF 2 * r < d THEN q
        ELSE IF 2 * r > d THEN q + 1
        ELSE IF q % 2 = 0 THEN q ELSE q + 1

canvas_to_coord_x(canvas_x) == py_round_div(canvas_x - origin_x, grid_size)

\* canvas_to_coord_y for a graph whose Y increases upward.
canvas_to_coord_y_upward(canvas_y) == py_round_div(origin_y - canvas_y, grid_size)

canvas_to_coord_y(canvas_y) == py_round_div(canvas_y - origin_y, grid_size)

coord_to_canvas_x(coord_x) == origin_x + coord_x * grid_size

coord_to_canvas_y(coord_y) == origin_y + coord_y * grid_size

(* --------------------------- Python lists ----------------------------- *)

\* lst.pop(i) for 0 <= i < len(lst): the list without element i.
list_pop(lst, i) == SubSeq(lst, 1, i) \o SubSeq(lst, i + 2, Len(lst))

\* lst.insert(i, v): a negative i counts from the end, and i is clamped to
\* 0..len(lst).
list_insert(lst, i, v) ==
    LET n == Len(lst)
        j == IF i < 0 THEN (IF i + n < 0 THEN 0 ELSE i + n)
             ELSE (IF i > n THEN n ELSE i)
    IN  SubSeq(lst, 1, j) \o <<v>> \o SubSeq(lst, j + 1, n)

\* Whether lst[i] exists for a list of length n (else IndexError).
index_ok(i, n) == -n <= i /\ i < n

\* The sequence position of lst[i].
index_pos(i, n) == IF i < 0 THEN n + i + 1 ELSE i + 1

\* lst[i] = v for an existing element.
list_setitem(lst, i, v) == [lst EXCEPT ![index_pos(i, Len(lst))] = v]

(* ------------------------------ store --------------------------------- *)

\* The fields of the TrackingRouteDrawer object (`self`) as a value.
Self ==
    [routes |-> routes, current_route |-> current_route, shared |-> shared,
     dragging |-> dragging, drag_route_idx |-> drag_route_idx,
     drag_point_idx |-> drag_point_idx]

RECURSIVE sum_len(_, _)
sum_len(rs, k) == IF k > Len(rs) THEN 0 ELSE Len(rs[k]) + sum_len(rs, k + 1)

\* Points held by the store.
TotalPoints(self) == Len(self.current_route) + sum_len(self.routes, 1)

RECURSIVE map_shared(_, _, _, _)
map_shared(rs, sh, new, k) ==
    IF k > Len(rs) THEN <<>>
    ELSE <<IF k \in sh THEN new ELSE rs[k]>> \o map_shared(rs, sh, new, k + 1)

\* An in-place change of the list object self.current_route is bound to.
mutate_current(self, new) ==
    [self EXCEPT !.current_route = new,
                 !.routes = IF self.shared = {} THEN @
                            ELSE map_shared(@, self.shared, new, 1)]

\* An in-place change of the list object self.routes[k - 1].
mutate_route(self, k, new) ==
    IF k \in self.shared THEN mutate_current(self, new)
    ELSE [self EXCEPT !.routes[k] = new]

\* self.routes.pop(k - 1): the positions after k move down by one.
pop_route(self, k) ==
    [self EXCEPT !.routes = list_pop(@, k - 1),
                 !.shared = {j \in @ : j < k} \cup {j - 1 : j \in {i \in @ : i > k}}]

\* self.current_route = []: the name is bound to a new list object.
rebind_current(self) == [self EXCEPT !.current_route = <<>>, !.shared = {}]

(* ------------------------------ numbers ------------------------------- *)
\* The hit test of a line and the analysis compute with Python floats: IEEE 754 binary64, every
\* operation rounded to the nearest value of 53 significant bits, ties to
\* the even one.  A float is modelled as [neg, m, e], the number
\* (-1)^neg * m * 2^e, where m is a natural number of exactly 53 bits, or
\* as Zero.  A natural number is the sequence of its digits in base Base,
\* lowest first, without leading zeros, so that equal numbers are equal
\* values.  0.0 and -0.0, which Python compares equal, are both Zero; the
\* exponent range (overflow, subnormals) is out of reach of the routes.

LimbBits == 15

Base == 2 ^ LimbBits

Precision == 53

Zero == [neg |-> FALSE, m |-> <<>>, e |-> 0]

abs(i) == IF i < 0 THEN 0 - i ELSE i

\* The digits of the natural number n.
RECURSIVE big_of(_)
big_of(n) == IF n = 0 THEN <<>> ELSE <<n % Base>> \o big_of(n \div Base)

\* x without leading zero digits.
RECURSIVE big_trim(_)
big_trim(x) ==
    IF x = <<>> THEN x
    ELSE IF x[Len(x)] = 0 THEN big_trim(SubSeq(x, 1, Len(x) - 1))
    ELSE x

limb(x, i) == IF 1 <= i /\ i <= Len(x) THEN x[i] ELSE 0

RECURSIVE add_from(_, _, _, _)
add_from(x, y, i, carry) ==
    IF i > Len(x) /\ i > Len(y) THEN (IF carry = 0 THEN <<>> ELSE <<carry>>)
    ELSE <<(limb(x, i) + limb(y, i) + carry) % Base>>
         \o add_from(x, y, i + 1, (limb(x, i) + limb(y, i) + carry) \div Base)

big_add(x, y) == add_from(x, y, 1, 0)

RECURSIVE sub_from(_, _, _, _)
sub_from(x, y, i, borrow) ==
    IF i > Len(x) THEN <<>>
    ELSE <<(x[i] - limb(y, i) - borrow + Base) % Base>>
         \o sub_from(x, y, i + 1, IF x[i] - limb(y, i) - borrow < 0 THEN 1 ELSE 0)

\* x - y for x >= y.
big_sub(x, y) == big_trim(sub_from(x, y, 1, 0))

RECURSIVE cmp_from(_, _, _)
cmp_from(x, y, i) ==
    IF i = 0 THEN 0
    ELSE IF x[i] < y[i] THEN -1
    ELSE IF x[i] > y[i] THEN 1
    ELSE cmp_from(x, y, i - 1)

\* -1, 0 or 1 as x < y, x = y or x > y.
big_cmp(x, y) ==
    IF Len(x) < Len(y) THEN -1
    ELSE IF Len(x) > Len(y) THEN 1
    ELSE cmp_from(x, y, Len(x))

RECURSIVE mul_small_from(_, _, _, _)
mul_small_from(x, d, i, carry) ==
    IF i > Len(x) THEN (IF carry = 0 THEN <<>> ELSE <<carry>>)
    ELSE <<(x[i] * d + carry) % Base>>
         \o mul_small_from(x, d, i + 1, (x[i] * d + carry) \div Base)

\* x * d for a digit d.
big_mul_small(x, d) == IF d = 0 THEN <<>> ELSE mul_small_from(x, d, 1, 0)

\* x * Base^n
shift_limbs(x, n) == IF x = <<>> THEN x ELSE [i \in 1 .. n |-> 0] \o x

RECURSIVE mul_from(_, _, _)
mul_from(x, y, j) ==
    IF j > Len(y) THEN <<>>
    ELSE big_add(big_mul_small(x, y[j]), shift_limbs(mul_from(x, y, j + 1), 1))

big_mul(x, y) == mul_from(x, y, 1)

\* x * 2^r for r < LimbBits.
shl_small(x, r) ==
    big_trim([i \in 1 .. Len(x) + 1 |->
                 ((limb(x, i) * (2 ^ r)) % Base) + ((limb(x, i - 1) * (2 ^ r)) \div Base)])

\* x * 2^k
big_shl(x, k) ==
    shift_limbs(IF k % LimbBits = 0 THEN x ELSE shl_small(x, k % LimbBits), k \div LimbBits)

\* x without its n lowest digits.
drop_limbs(x, n) == IF n >= Len(x) THEN <<>> ELSE SubSeq(x, n + 1, Len(x))

\* floor(x / 2^r) for r < LimbBits.
shr_small(x, r) ==
    big_trim([i \in 1 .. Len(x) |->
                 (x[i] \div (2 ^ r)) + (limb(x, i + 1) % (2 ^ r)) * (2 ^ (LimbBits - r))])

\* floor(x / 2^k)
big_shr(x, k) ==
    IF k % LimbBits = 0 THEN drop_limbs(x, k \div LimbBits)
    ELSE shr_small(drop_limbs(x, k \div LimbBits), k % LimbBits)

RECURSIVE bits_of(_)
bits_of(n) == IF n = 0 THEN 0 ELSE 1 + bits_of(n \div 2)

\* The number of bits of x.
bit_length(x) ==
    IF x = <<>> THEN 0
    ELSE LimbBits * (Len(x) - 1) + Cardinality({b \in 0 .. LimbBits - 1 : 2 ^ b <= x[Len(x)]})

\* Bit j of x, bit 0 the lowest.
big_bit(x, j) == (limb(x, j \div LimbBits + 1) \div (2 ^ (j % LimbBits))) % 2

\* x has a 1 among its k lowest bits.
low_bits_set(x, k) ==
    \/ \E i \in 1 .. k \div LimbBits : limb(x, i) # 0
    \/ limb(x, k \div LimbBits + 1) % (2 ^ (k % LimbBits)) # 0

\* m * 2^e for m of Precision bits or m = 2^Precision.
normal(neg, m, e) ==
    IF big_bit(m, Precision) = 1
    THEN [neg |-> neg, m |-> big_shr(m, 1), e |-> e + 1]
    ELSE [neg |-> neg, m |-> m, e |-> e]

\* m * 2^e, plus a positive amount below 2^e if sticky, rounded to
\* Precision bits, for m of k bits more than Precision, k >= 1.
round_off(neg, m, e, sticky, k) ==
    IF big_bit(m, k - 1) = 1
       /\ (sticky \/ big_bit(m, k) = 1 \/ low_bits_set(m, k - 1))
    THEN normal(neg, big_add(big_shr(m, k), <<1>>), e + k)
    ELSE [neg |-> neg, m |-> big_shr(m, k), e |-> e + k]

\* rounded, for m # 0 of n bits.
round_bits(neg, m, e, sticky, n) ==
    IF n = Precision /\ ~sticky THEN [neg |-> neg, m |-> m, e |-> e]
    ELSE IF n <= Precision
    THEN [neg |-> neg, m |-> big_shl(m, Precision - n), e |-> e - (Precision - n)]
    ELSE round_off(neg, m, e, sticky, n - Precision)

\* The float nearest to (-1)^neg * (m * 2^e, plus a positive amount below
\* 2^e if sticky); sticky only with m of more than Precision bits.
rounded(neg, m, e, sticky) ==
    IF m = <<>> THEN Zero ELSE round_bits(neg, m, e, sticky, bit_length(m))

\* float(i) for an int i.
num_int(i) == rounded(i < 0, big_of(abs(i)), 0, FALSE)

num_neg(x) == IF x = Zero THEN x ELSE [x EXCEPT !.neg = ~x.neg]

\* x + y for the magnitudes mx * 2^e and my * 2^e.
add_aligned(xneg, mx, yneg, my, e) ==
    IF xneg = yneg THEN rounded(xneg, big_add(mx, my), e, FALSE)
    ELSE IF big_cmp(mx, my) >= 0 THEN rounded(xneg, big_sub(mx, my), e, FALSE)
    ELSE rounded(yneg, big_sub(my, mx), e, FALSE)

add_at(x, y, e) == add_aligned(x.neg, big_shl(x.m, x.e - e), y.neg, big_shl(y.m, y.e - e), e)

num_add(x, y) ==
    IF x = Zero THEN y
    ELSE IF y = Zero THEN x
    ELSE add_at(x, y, IF x.e < y.e THEN x.e ELSE y.e)

num_sub(x, y) == num_add(x, num_neg(y))

\* The number of zero digits at the low end of x # 0, from digit i on.
RECURSIVE low_zeros(_, _)
low_zeros(x, i) == IF x[i] # 0 THEN 0 ELSE 1 + low_zeros(x, i + 1)

\* x * y for the magnitudes mx * Base^zx * 2^ex and my * Base^zy * 2^ey.
mul_stripped(neg, mx, zx, my, zy, e) ==
    rounded(neg, big_mul(drop_limbs(mx, zx), drop_limbs(my, zy)), e + LimbBits * (zx + zy),
            FALSE)

num_mul(x, y) ==
    IF x = Zero \/ y = Zero THEN Zero
    ELSE mul_stripped(x.neg # y.neg, x.m, low_zeros(x.m, 1), y.m, low_zeros(y.m, 1),
                      x.e + y.e)

\* The greatest digit q with q * d <= r, from the estimate qh >= q.
RECURSIVE digit_from(_, _, _)
digit_from(r, d, qh) ==
    IF big_cmp(big_mul_small(d, qh), r) > 0 THEN digit_from(r, d, qh - 1) ELSE qh

\* floor(r / d) for r < d * Base and d with a highest digit >= Base / 2:
\* the two highest digits of r by the highest of d, at most 2 too large.
digit_of(r, d, qh) == digit_from(r, d, IF qh > Base - 1 THEN Base - 1 ELSE qh)

div_digit(r, d) ==
    digit_of(r, d, (limb(r, Len(d) + 1) * Base + limb(r, Len(d))) \div d[Len(d)])

\* The long division by d after the quotient digit `digit`: the remainder
\* r and the quotient digits q, lowest first.
div_step(r, q, d, digit) ==
    [r |-> big_sub(r, big_mul_small(d, digit)), q |-> <<digit>> \o q]

\* The long division of n by d that stands at st before digit i of n.
RECURSIVE div_digits(_, _, _, _)
div_bring_down(r, q, n, d, i) ==
    div_digits(div_step(r, q, d, div_digit(r, d)), n, d, i - 1)

div_digits(st, n, d, i) ==
    IF i = 0 THEN [q |-> big_trim(st.q), r |-> st.r]
    ELSE div_bring_down(big_trim(<<n[i]>> \o st.r), st.q, n, d, i)

\* The quotient q and the remainder r of n by d, for d with a highest
\* digit >= Base / 2: the digits of n above the lowest Len(n) - Len(d) + 1
\* are less than d.
big_divmod(n, d) ==
    IF Len(n) < Len(d) THEN [q |-> <<>>, r |-> n]
    ELSE div_digits([r |-> SubSeq(n, Len(n) - Len(d) + 2, Len(n)), q |-> <<>>],
                    n, d, Len(n) - Len(d) + 1)

\* The shift that brings the highest digit of a Precision-bit number to
\* Base / 2 or more, and the digits of such a number.
DivisorShift == LimbBits - 1 - ((Precision - 1) % LimbBits)

QuotientDigits == (Precision + DivisorShift) \div LimbBits

quotient_rounded(neg, res, e) == rounded(neg, res.q, e, res.r # <<>>)

\* x / y for y # 0: the quotient of x.m * Base^QuotientDigits by y.m.
num_div(x, y) ==
    IF x = Zero THEN Zero
    ELSE quotient_rounded(x.neg # y.neg,
                          big_divmod(shift_limbs(big_shl(x.m, DivisorShift), QuotientDigits),
                                     big_shl(y.m, DivisorShift)),
                          x.e - y.e - LimbBits * QuotientDigits)

\* -1, 0 or 1 as x is negative, zero or positive.
num_sign(x) == IF x = Zero THEN 0 ELSE IF x.neg THEN -1 ELSE 1

\* -1, 0 or 1 as |x| < |y|, |x| = |y| or |x| > |y|, for x, y # 0.
cmp_magnitude(x, y) ==
    IF x.e < y.e THEN -1 ELSE IF x.e > y.e THEN 1 ELSE big_cmp(x.m, y.m)

\* x <= y
num_le(x, y) ==
    IF num_sign(x) # num_sign(y) THEN num_sign(x) < num_sign(y)
    ELSE IF num_sign(x) = 0 THEN TRUE
    ELSE IF num_sign(x) > 0 THEN cmp_magnitude(x, y) <= 0
    ELSE cmp_magnitude(x, y) >= 0

\* The greatest int r with r * r <= k among those that have the bits of r
\* and, below, bits from 2^b down, for k < Base * Base.
RECURSIVE int_root(_, _, _)
int_root(k, r, b) ==
    IF b < 0 THEN r
    ELSE IF (r + 2 ^ b) * (r + 2 ^ b) <= k THEN int_root(k, r + 2 ^ b, b - 1)
    ELSE int_root(k, r, b - 1)

\* Newton's iteration for the greatest r with r * r <= n, from r above it.
RECURSIVE big_root(_, _)
root_step(n, r, next) == IF big_cmp(next, r) >= 0 THEN r ELSE big_root(n, next)

big_root(n, r) == root_step(n, r, big_shr(big_add(r, big_divmod(n, r).q), 1))

\* The digits of a root after its first one: enough for Precision + 1 bits.
RootDigits == (Precision + 1) \div LimbBits

root_rounded(n, r, e) == rounded(FALSE, r, e, big_mul(r, r) # n)

\* The float nearest to the root of k * 2^s, for s even and
\* Base * Base / 4 <= k * 2^s < Base * Base, as the root of
\* n = k * 2^s * Base^(2 * RootDigits), which starts with the digit first.
root_from(n, first, s) ==
    root_rounded(n, big_root(n, [i \in 1 .. RootDigits |-> Base - 1] \o <<first>>),
                 0 - (s \div 2 + LimbBits * RootDigits))

root_shifted(k, s) ==
    root_from(shift_limbs(big_of(k * 2 ^ s), 2 * RootDigits),
              int_root(k * 2 ^ s, 0, LimbBits - 1), s)

\* The float nearest to the root of the int k, 0 <= k < Base * Base.
sqrt_of(k) ==
    IF k = 0 THEN Zero ELSE root_shifted(k, 2 * ((2 * LimbBits - bits_of(k)) \div 2))

\* The roots of the ints up to MaxSquare are tabulated.
MaxSquare == 400

\* The roots of lo .. hi, in order.
RECURSIVE roots_of(_, _)
roots_of(lo, hi) ==
    IF lo = hi THEN <<sqrt_of(lo)>>
    ELSE roots_of(lo, (lo + hi) \div 2) \o roots_of((lo + hi) \div 2 + 1, hi)

\* sqrt_table[k + 1] is the root of k, worked out once.
sqrt_table == roots_of(0, MaxSquare)

\* math.sqrt(k) for an int k >= 0.
math_sqrt(k) == IF k <= MaxSquare THEN sqrt_table[k + 1] ELSE sqrt_of(k)

\* math.sqrt(x) for a float x >= 0: the float nearest to the root of
\* x.m * 2^x.e, from the integer root of n = x.m * 2^k, with k such that
\* x.e - k is even and the root has RootDigits + 1 digits, the highest
\* Base / 2 or more, as the divisions of big_root need it.
RootShift == 2 * LimbBits * (RootDigits + 1) - Precision

sqrt_shifted(n, e) ==
    root_rounded(n, big_root(n, [i \in 1 .. RootDigits + 1 |-> Base - 1]), e \div 2)

sqrt_float(x) ==
    IF x = Zero THEN Zero
    ELSE IF (x.e - RootShift) % 2 = 0
    THEN sqrt_shifted(big_shl(x.m, RootShift), x.e - RootShift)
    ELSE sqrt_shifted(big_shl(x.m, RootShift - 1), x.e - (RootShift - 1))

(* ---------------------------- hit testing ----------------------------- *)

\* distance <= self.click_tolerance for one point.  The distance is the
\* square root of an integer, so the comparison is that of the squares.
point_hit(point, canvas_x, canvas_y) ==
    LET dx == canvas_x - coord_to_canvas_x(point[1])
        dy == canvas_y - coord_to_canvas_y(point[2])
    IN  dx * dx + dy * dy <= click_tolerance * click_tolerance

\* for i, point in enumerate(route), from index i on: the first index within
\* tolerance, or None.
RECURSIVE scan_points(_, _, _, _)
scan_points(route, i, canvas_x, canvas_y) ==
    IF i >= Len(route) THEN None
    ELSE IF point_hit(route[i + 1], canvas_x, canvas_y) THEN i
    ELSE scan_points(route, i + 1, canvas_x, canvas_y)

\* for route_idx, route in enumerate(self.routes), from route_idx on.
RECURSIVE scan_routes(_, _, _, _)
scan_routes(rs, route_idx, canvas_x, canvas_y) ==
    IF route_idx >= Len(rs) THEN NotFound
    ELSE LET i == scan_points(rs[route_idx + 1], 0, canvas_x, canvas_y)
         IN  IF i # None THEN <<route_idx, i>>
             ELSE scan_routes(rs, route_idx + 1, canvas_x, canvas_y)

\* find_point_at_position with the two loops in the other order.
find_point_at_position_committed_first(self, canvas_x, canvas_y) ==
    LET hit == scan_routes(self.routes, 0, canvas_x, canvas_y)
        i == scan_points(self.current_route, 0, canvas_x, canvas_y)
    IN  IF hit # NotFound THEN hit
        ELSE IF i # None THEN <<-1, i>>
        ELSE NotFound

find_point_at_position(self, canvas_x, canvas_y) ==
    LET i == scan_points(self.current_route, 0, canvas_x, canvas_y)
    IN  IF i # None THEN <<-1, i>>
        ELSE scan_routes(self.routes, 0, canvas_x, canvas_y)

\* t = max(0, min(1, ratio)): min gives 1 unless ratio < 1, max gives 0
\* unless that is above 0.
clamped(ratio) ==
    IF num_le(num_int(1), ratio) THEN num_int(1)
    ELSE IF num_le(ratio, Zero) THEN Zero
    ELSE ratio

\* closest_x = x1 + t * (x2 - x1), and likewise closest_y.
closest_on_axis(c1, c2, t) == num_add(num_int(c1), num_mul(t, num_int(c2 - c1)))

\* m * 2^e for m # 0 with k bits more than Precision, as a float: itself
\* if it is one, and else the float above it or the float below it.
directed_bits(m, e, above, k) ==
    IF k <= 0 THEN [neg |-> FALSE, m |-> big_shl(m, 0 - k), e |-> e + k]
    ELSE IF above /\ low_bits_set(m, k)
    THEN normal(FALSE, big_add(big_shr(m, k), <<1>>), e + k)
    ELSE [neg |-> FALSE, m |-> big_shr(m, k), e |-> e + k]

directed(m, e, above) == directed_bits(m, e, above, bit_length(m) - Precision)

\* The square of m * 2^e for m # 0.
square_stripped(m, e, above) == directed(big_mul(m, m), 2 * e, above)

\* (canvas_x - closest_x)**2, and likewise for y: pow(offset, 2.0) of the C
\* library, which gives the square if that is a float and else one of the
\* two floats next to it.
offset_squared(offset, above) ==
    IF offset = Zero THEN Zero
    ELSE square_stripped(drop_limbs(offset.m, low_zeros(offset.m, 1)),
                         offset.e + LimbBits * low_zeros(offset.m, 1), above)

\* distance <= self.click_tolerance for the closest point at parameter t.
\* The sum, the root and the comparison grow with the squares, so with both
\* squares below and with both above the test has every outcome a build
\* can give.
distance_within(canvas_x, canvas_y, x1, y1, x2, y2, t, above) ==
    num_le(sqrt_float(num_add(
               offset_squared(num_sub(num_int(canvas_x), closest_on_axis(x1, x2, t)), above),
               offset_squared(num_sub(num_int(canvas_y), closest_on_axis(y1, y2, t)), above))),
           num_int(click_tolerance))

\* distance <= self.click_tolerance for the canvas positions of the two
\* points, with line_length_sq > 0 and the dot product, both ints.
on_line_between(canvas_x, canvas_y, x1, y1, x2, y2, line_length_sq, dot, above) ==
    distance_within(canvas_x, canvas_y, x1, y1, x2, y2,
                    clamped(num_div(num_int(dot), num_int(line_length_sq))), above)

\* Distance from the position to the segment point1-point2 against the
\* tolerance, in the floats of the program: t is the quotient of two ints
\* clamped to 0 .. 1, the closest point is p1 + t * (p2 - p1) and the
\* distance is the root of the sum of the squared offsets, in a build whose
\* pow gives the float above (or below) a square that is no float.
on_line(canvas_x, canvas_y, point1, point2, above) ==
    LET x1 == coord_to_canvas_x(point1[1])
        y1 == coord_to_canvas_y(point1[2])
        x2 == coord_to_canvas_x(point2[1])
        y2 == coord_to_canvas_y(point2[2])
        line_length_sq == (x2 - x1) * (x2 - x1) + (y2 - y1) * (y2 - y1)
        dot == (canvas_x - x1) * (x2 - x1) + (canvas_y - y1) * (y2 - y1)
    IN  IF line_length_sq = 0 THEN FALSE
        ELSE on_line_between(canvas_x, canvas_y, x1, y1, x2, y2, line_length_sq, dot, above)

\* The grid points the pointer events put into the store.
ClickedPoints == {<<canvas_to_coord_x(c[1]), canvas_to_coord_y(c[2])>> : c \in Clicks}

\* The positions and segments of the pointer events, for which on_line is
\* worked out once, and each of them and each build with what on_line gives
\* for it.
OnLineKeys == Clicks \X ClickedPoints \X ClickedPoints

on_line_table ==
    {<<k, above, on_line(k[1][1], k[1][2], k[2], k[3], above)>> :
        k \in OnLineKeys, above \in BOOLEAN}

\* is_point_on_line with a segment of length zero tested as the point it is,
\* in place of "if line_length_sq == 0: return False".
is_point_on_line_degenerate_as_point(canvas_x, canvas_y, point1, point2) ==
    IF point1 = point2 THEN point_hit(point1, canvas_x, canvas_y)
    ELSE IF <<<<canvas_x, canvas_y>>, point1, point2>> \in OnLineKeys
    THEN <<<<<<canvas_x, canvas_y>>, point1, point2>>, pow_above, TRUE>> \in on_line_table
    ELSE on_line(canvas_x, canvas_y, point1, point2, pow_above)

is_point_on_line(canvas_x, canvas_y, point1, point2) ==
    IF <<<<canvas_x, canvas_y>>, point1, point2>> \in OnLineKeys
    THEN <<<<<<canvas_x, canvas_y>>, point1, point2>>, pow_above, TRUE>> \in on_line_table
    ELSE on_line(canvas_x, canvas_y, point1, point2, pow_above)

\* for i in range(len(route) - 1), from i on: the first segment start within
\* tolerance, or None.
RECURSIVE scan_lines(_, _, _, _)
scan_lines(route, i, canvas_x, canvas_y) ==
    IF i >= Len(route) - 1 THEN None
    ELSE IF is_point_on_line(canvas_x, canvas_y, route[i + 1], route[i + 2]) THEN i
    ELSE scan_lines(route, i + 1, canvas_x, canvas_y)

RECURSIVE scan_route_lines(_, _, _, _)

\* The body of the loop over the routes for route route_idx, whose segments
\* gave i: "return (route_idx, i, i + 1)", or the next route.
line_of_route(rs, route_idx, canvas_x, canvas_y, i) ==
    IF i # None THEN <<route_idx, i, i + 1>>
    ELSE scan_route_lines(rs, route_idx + 1, canvas_x, canvas_y)

scan_route_lines(rs, route_idx, canvas_x, canvas_y) ==
    IF route_idx >= Len(rs) THEN NotFound
    ELSE line_of_route(rs, route_idx, canvas_x, canvas_y,
                       scan_lines(rs[route_idx + 1], 0, canvas_x, canvas_y))

\* find_line_at_position returning the segment with indices counted from one.
find_line_at_position_from_one(self, canvas_x, canvas_y) ==
    LET i == scan_lines(self.current_route, 0, canvas_x, canvas_y)
        hit == scan_route_lines(self.routes, 0, canvas_x, canvas_y)
    IN  IF i # None THEN <<-1, i + 1, i + 2>>
        ELSE IF hit # NotFound THEN <<hit[1], hit[2] + 1, hit[3] + 1>>
        ELSE NotFound

\* find_line_at_position once the segments of the current route gave i:
\* "return (-1, i, i + 1)", or the loop over the routes.
line_of_current(self, canvas_x, canvas_y, i) ==
    IF i # None THEN <<-1, i, i + 1>>
    ELSE scan_route_lines(self.routes, 0, canvas_x, canvas_y)

find_line_at_position(self, canvas_x, canvas_y) ==
    line_of_current(self, canvas_x, canvas_y,
                    scan_lines(self.current_route, 0, canvas_x, canvas_y))

(* -------------------------- store operations -------------------------- *)
\* An operation yields the object after it ran (self) and the path it took.

\* remove_point without "if not self.routes[route_idx]: self.routes.pop(route_idx)".
remove_point_keep_empty(self, route_idx, point_idx) ==
    IF route_idx = -1
    THEN IF 0 <= point_idx /\ point_idx < Len(self.current_route)
         THEN [self |-> mutate_current(self, list_pop(self.current_route, point_idx)),
               path |-> "removed_from_current"]
         ELSE [self |-> self, path |-> "remove_noop"]
    ELSE IF /\ 0 <= route_idx
            /\ route_idx < Len(self.routes)
            /\ 0 <= point_idx
            /\ point_idx < Len(self.routes[route_idx + 1])
         THEN LET popped == mutate_route(self, route_idx + 1,
                                list_pop(self.routes[route_idx + 1], point_idx))
              IN  IF popped.routes[route_idx + 1] = <<>>
                  THEN [self |-> popped, path |-> "removed_and_deleted_route"]
                  ELSE [self |-> popped, path |-> "removed_from_route"]
         ELSE [self |-> self, path |-> "remove_noop"]

\* remove_point with "self.routes.pop()" for "self.routes.pop(route_idx)".
remove_point_pop_last(self, route_idx, point_idx) ==
    IF route_idx = -1
    THEN IF 0 <= point_idx /\ point_idx < Len(self.current_route)
         THEN [self |-> mutate_current(self, list_pop(self.current_route, point_idx)),
               path |-> "removed_from_current"]
         ELSE [self |-> self, path |-> "remove_noop"]
    ELSE IF /\ 0 <= route_idx
            /\ route_idx < Len(self.routes)
            /\ 0 <= point_idx
            /\ point_idx < Len(self.routes[route_idx + 1])
         THEN LET popped == mutate_route(self, route_idx + 1,
                                list_pop(self.routes[route_idx + 1], point_idx))
              IN  IF popped.routes[route_idx + 1] = <<>>
                  THEN [self |-> pop_route(popped, Len(popped.routes)),
                        path |-> "removed_and_deleted_route"]
                  ELSE [self |-> popped, path |-> "removed_from_route"]
         ELSE [self |-> self, path |-> "remove_noop"]

\* remove_point without the "0 <= point_idx" half of the range check on the
\* current route: pop then takes a negative index from the end.
remove_point_negative_index(self, route_idx, point_idx) ==
    IF route_idx = -1
    THEN IF index_ok(point_idx, Len(self.current_route))
         THEN [self |-> mutate_current(self,
                            list_pop(self.current_route,
                                     index_pos(point_idx, Len(self.current_route)) - 1)),
               path |-> "removed_from_current"]
         ELSE [self |-> self, path |-> "remove_noop"]
    ELSE IF /\ 0 <= route_idx
            /\ route_idx < Len(self.routes)
            /\ 0 <= point_idx
            /\ point_idx < Len(self.routes[route_idx + 1])
         THEN LET popped == mutate_route(self, route_idx + 1,
                                list_pop(self.routes[route_idx + 1], point_idx))
              IN  IF popped.routes[route_idx + 1] = <<>>
                  THEN [self |-> pop_route(popped, route_idx + 1),
                        path |-> "removed_and_deleted_route"]
                  ELSE [self |-> popped, path |-> "removed_from_route"]
         ELSE [self |-> self, path |-> "remove_noop"]

remove_point(self, route_idx, point_idx) ==
    IF route_idx = -1
    THEN IF 0 <= point_idx /\ point_idx < Len(self.current_route)
         THEN [self |-> mutate_current(self, list_pop(self.current_route, point_idx)),
               path |-> "removed_from_current"]
         ELSE [self |-> self, path |-> "remove_noop"]
    ELSE IF /\ 0 <= route_idx
            /\ route_idx < Len(self.routes)
            /\ 0 <= point_idx
            /\ point_idx < Len(self.routes[route_idx + 1])
         THEN LET popped == mutate_route(self, route_idx + 1,
                                list_pop(self.routes[route_idx + 1], point_idx))
              IN  IF popped.routes[route_idx + 1] = <<>>
                  THEN [self |-> pop_route(popped, route_idx + 1),
                        path |-> "removed_and_deleted_route"]
                  ELSE [self |-> popped, path |-> "removed_from_route"]
         ELSE [self |-> self, path |-> "remove_noop"]

\* insert_point_in_route with "append(new_point)" for
\* "insert(insert_idx, new_point)".
insert_point_in_route_append(self, route_idx, insert_idx, new_point) ==
    IF route_idx = -1
    THEN [self |-> mutate_current(self, Append(self.current_route, new_point)),
          path |-> "inserted_in_current"]
    ELSE IF 0 <= route_idx /\ route_idx < Len(self.routes)
         THEN [self |-> mutate_route(self, route_idx + 1,
                            Append(self.routes[route_idx + 1], new_point)),
               path |-> "inserted_in_route"]
         ELSE [self |-> self, path |-> "insert_noop"]

insert_point_in_route(self, route_idx, insert_idx, new_point) ==
    IF route_idx = -1
    THEN [self |-> mutate_current(self,
                       list_insert(self.current_route, insert_idx, new_point)),
          path |-> "inserted_in_current"]
    ELSE IF 0 <= route_idx /\ route_idx < Len(self.routes)
         THEN [self |-> mutate_route(self, route_idx + 1,
                            list_insert(self.routes[route_idx + 1], insert_idx, new_point)),
               path |-> "inserted_in_route"]
         ELSE [self |-> self, path |-> "insert_noop"]

(* ----------------------------- handlers ------------------------------- *)
\* A handler yields the object after it ran, the path it took and the
\* reference it worked on (clicked_point_info, line_info or the drag target).

on_left_click(self, x, y) ==
    LET clicked_point_info == find_point_at_position(self, x, y)
        point == <<canvas_to_coord_x(x), canvas_to_coord_y(y)>>
    IN  IF clicked_point_info # NotFound
        THEN [self |-> [self EXCEPT !.dragging = TRUE,
                                    !.drag_route_idx = clicked_point_info[1],
                                    !.drag_point_idx = clicked_point_info[2]],
              path |-> "drag",
              ref |-> clicked_point_info]
        ELSE [self |-> mutate_current(self, Append(self.current_route, point)),
              path |-> "add",
              ref |-> NotFound]

\* start_new_route without "if self.current_route:".
start_new_route_no_guard(self) ==
    [self |-> rebind_current([self EXCEPT !.routes = Append(@, self.current_route)]),
     path |-> IF self.current_route # <<>> THEN "saved" ELSE "empty",
     ref |-> NotFound]

\* start_new_route with "self.routes.append(self.current_route)" and
\* "self.current_route.clear()": the committed route is the list object the
\* current route stays bound to.
start_new_route_aliasing(self) ==
    IF self.current_route # <<>>
    THEN [self |-> mutate_current(
                       [self EXCEPT !.routes = Append(@, self.current_route),
                                    !.shared = @ \cup {Len(self.routes) + 1}],
                       <<>>),
          path |-> "saved",
          ref |-> NotFound]
    ELSE [self |-> self, path |-> "empty", ref |-> NotFound]

start_new_route(self) ==
    LET saved == IF self.current_route # <<>>
                 THEN [self EXCEPT !.routes = Append(@, self.current_route)]
                 ELSE self
    IN  [self |-> rebind_current(saved),
         path |-> IF self.current_route # <<>> THEN "saved" ELSE "empty",
         ref |-> NotFound]

\* clear_all without "self.current_route = []".
clear_all_keep_current(self) ==
    [self |-> [self EXCEPT !.routes = <<>>],
     path |-> "cleared",
     ref |-> NotFound]

clear_all(self) ==
    [self |-> rebind_current([self EXCEPT !.routes = <<>>]),
     path |-> "cleared",
     ref |-> NotFound]

\* undo_last_point going on to the last committed route when the current
\* route is empty.
undo_last_point_into_committed(self) ==
    IF self.current_route # <<>>
    THEN [self |-> mutate_current(self,
                       list_pop(self.current_route, Len(self.current_route) - 1)),
          path |-> "removed",
          ref |-> NotFound]
    ELSE IF self.routes # <<>>
    THEN [self |-> mutate_route(self, Len(self.routes),
                       list_pop(self.routes[Len(self.routes)],
                                Len(self.routes[Len(self.routes)]) - 1)),
          path |-> "removed",
          ref |-> NotFound]
    ELSE [self |-> self, path |-> "info", ref |-> NotFound]

undo_last_point(self) ==
    IF self.current_route # <<>>
    THEN [self |-> mutate_current(self,
                       list_pop(self.current_route, Len(self.current_route) - 1)),
          path |-> "removed",
          ref |-> NotFound]
    ELSE [self |-> self, path |-> "info", ref |-> NotFound]

\* on_right_click with the line search ahead of the point search.
on_right_click_line_first(self, x, y) ==
    LET clicked_point_info == find_point_at_position(self, x, y)
        line_info == find_line_at_position(self, x, y)
        point == <<canvas_to_coord_x(x), canvas_to_coord_y(y)>>
    IN  IF line_info # NotFound
        THEN LET r == insert_point_in_route(self, line_info[1], line_info[2] + 1, point)
             IN  [self |-> r.self, path |-> r.path, ref |-> line_info]
        ELSE IF clicked_point_info # NotFound
        THEN LET r == remove_point(self, clicked_point_info[1], clicked_point_info[2])
             IN  [self |-> r.self, path |-> r.path, ref |-> clicked_point_info]
        ELSE [self |-> self, path |-> "miss", ref |-> NotFound]

\* on_right_click inserting after the second point of the segment, in place
\* of "point1_idx + 1".
on_right_click_after_segment(self, x, y) ==
    LET clicked_point_info == find_point_at_position(self, x, y)
        line_info == find_line_at_position(self, x, y)
        point == <<canvas_to_coord_x(x), canvas_to_coord_y(y)>>
    IN  IF clicked_point_info # NotFound
        THEN LET r == remove_point(self, clicked_point_info[1], clicked_point_info[2])
             IN  [self |-> r.self, path |-> r.path, ref |-> clicked_point_info]
        ELSE IF line_info # NotFound
        THEN LET r == insert_point_in_route(self, line_info[1], line_info[3] + 1, point)
             IN  [self |-> r.self, path |-> r.path, ref |-> line_info]
        ELSE [self |-> self, path |-> "miss", ref |-> NotFound]

\* on_right_click once the two searches gave clicked_point_info and line_info.
right_clicked(self, x, y, clicked_point_info, line_info) ==
    LET point == <<canvas_to_coord_x(x), canvas_to_coord_y(y)>>
    IN  IF clicked_point_info # NotFound
        THEN LET r == remove_point(self, clicked_point_info[1], clicked_point_info[2])
             IN  [self |-> r.self, path |-> r.path, ref |-> clicked_point_info]
        ELSE IF line_info # NotFound
        THEN LET r == insert_point_in_route(self, line_info[1], line_info[2] + 1, point)
             IN  [self |-> r.self, path |-> r.path, ref |-> line_info]
        ELSE [self |-> self, path |-> "miss", ref |-> NotFound]

on_right_click(self, x, y) ==
    right_clicked(self, x, y, find_point_at_position(self, x, y),
                  find_line_at_position(self, x, y))

\* on_left_release without the "if self.drag_route_idx == -1" branch: the
\* current-route sentinel -1 indexes self.routes from the end.
on_left_release_no_sentinel(self, x, y) ==
    LET point == <<canvas_to_coord_x(x), canvas_to_coord_y(y)>>
        target == <<self.drag_route_idx, self.drag_point_idx>>
        idle == [self EXCEPT !.dragging = FALSE,
                             !.drag_route_idx = None,
                             !.drag_point_idx = None]
    IN  IF ~self.dragging THEN [self |-> self, path |-> "idle", ref |-> NotFound]
        ELSE IF /\ index_ok(self.drag_route_idx, Len(self.routes))
                /\ index_ok(self.drag_point_idx,
                       Len(self.routes[index_pos(self.drag_route_idx, Len(self.routes))]))
             THEN LET k == index_pos(self.drag_route_idx, Len(self.routes))
                  IN  [self |-> mutate_route(idle, k,
                                    list_setitem(self.routes[k], self.drag_point_idx, point)),
                       path |-> "moved",
                       ref |-> target]
             ELSE [self |-> self, path |-> "IndexError", ref |-> target]

\* on_left_release placing a point when no drag is in progress, in place of
\* doing nothing.
on_left_release_placing_when_idle(self, x, y) ==
    LET point == <<canvas_to_coord_x(x), canvas_to_coord_y(y)>>
        target == <<self.drag_route_idx, self.drag_point_idx>>
        idle == [self EXCEPT !.dragging = FALSE,
                             !.drag_route_idx = None,
                             !.drag_point_idx = None]
    IN  IF ~self.dragging
        THEN [self |-> mutate_current(self, Append(self.current_route, point)),
              path |-> "idle", ref |-> NotFound]
        ELSE IF self.drag_route_idx = -1
        THEN IF index_ok(self.drag_point_idx, Len(self.current_route))
             THEN [self |-> mutate_current(idle,
                                list_setitem(self.current_route, self.drag_point_idx, point)),
                   path |-> "moved",
                   ref |-> target]
             ELSE [self |-> self, path |-> "IndexError", ref |-> target]
        ELSE IF /\ index_ok(self.drag_route_idx, Len(self.routes))
                /\ index_ok(self.drag_point_idx,
                       Len(self.routes[index_pos(self.drag_route_idx, Len(self.routes))]))
             THEN LET k == index_pos(self.drag_route_idx, Len(self.routes))
                  IN  [self |-> mutate_route(idle, k,
                                    list_setitem(self.routes[k], self.drag_point_idx, point)),
                       path |-> "moved",
                       ref |-> target]
             ELSE [self |-> self, path |-> "IndexError", ref |-> target]

on_left_release(self, x, y) ==
    LET point == <<canvas_to_coord_x(x), canvas_to_coord_y(y)>>
        target == <<self.drag_route_idx, self.drag_point_idx>>
        idle == [self EXCEPT !.dragging = FALSE,
                             !.drag_route_idx = None,
                             !.drag_point_idx = None]
    IN  IF ~self.dragging THEN [self |-> self, path |-> "idle", ref |-> NotFound]
        ELSE IF self.drag_route_idx = -1
        THEN IF index_ok(self.drag_point_idx, Len(self.current_route))
             THEN [self |-> mutate_current(idle,
                                list_setitem(self.current_route, self.drag_point_idx, point)),
                   path |-> "moved",
                   ref |-> target]
             ELSE [self |-> self, path |-> "IndexError", ref |-> target]
        ELSE IF /\ index_ok(self.drag_route_idx, Len(self.routes))
                /\ index_ok(self.drag_point_idx,
                       Len(self.routes[index_pos(self.drag_route_idx, Len(self.routes))]))
             THEN LET k == index_pos(self.drag_route_idx, Len(self.routes))
                  IN  [self |-> mutate_route(idle, k,
                                    list_setitem(self.routes[k], self.drag_point_idx, point)),
                       path |-> "moved",
                       ref |-> target]
             ELSE [self |-> self, path |-> "IndexError", ref |-> target]

\* on_drag writing the dragged point to the store on every motion event, as
\* on_left_release does, and staying in the drag.
on_drag_live_move(self, x, y) ==
    LET moved == on_left_release(self, x, y)
    IN  [self |-> IF moved.path = "moved"
                  THEN [moved.self EXCEPT !.dragging = TRUE,
                                          !.drag_route_idx = self.drag_route_idx,
                                          !.drag_point_idx = self.drag_point_idx]
                  ELSE self,
         path |-> IF self.dragging THEN "dragging" ELSE "idle",
         ref |-> NotFound]

on_drag(self, x, y) ==
    [self |-> self,
     path |-> IF self.dragging THEN "dragging" ELSE "idle",
     ref |-> NotFound]

on_mouse_move(self, x, y) ==
    [self |-> self,
     path |-> IF ~self.dragging THEN "coordinates" ELSE "dragging",
     ref |-> NotFound]

(* ---------------------------- arc length ------------------------------ *)
\* A point of a result is a pair of numbers; a route is a sequence of grid
\* points (pairs of ints).

as_point(p) == <<num_int(p[1]), num_int(p[2])>>

\* math.sqrt((x2 - x1)**2 + (y2 - y1)**2)
distance_between(p1, p2) ==
    math_sqrt((p2[1] - p1[1]) * (p2[1] - p1[1]) + (p2[2] - p1[2]) * (p2[2] - p1[2]))

\* The length of the segment route[i], route[i + 1].
segment_length(route, i) == distance_between(route[i + 1], route[i + 2])

\* for i in range(len(route) - 1), from i on: total_length += distance.
RECURSIVE sum_segments(_, _, _)
sum_segments(route, i, total_length) ==
    IF i >= Len(route) - 1 THEN total_length
    ELSE sum_segments(route, i + 1, num_add(total_length, segment_length(route, i)))

calculate_route_length(route) ==
    IF Len(route) < 2 THEN num_int(0)
    ELSE sum_segments(route, 0, num_int(0))

calculate_euclidean_distance(route) ==
    IF Len(route) < 2 THEN num_int(0)
    ELSE distance_between(route[1], route[Len(route)])

\* (x1 + ratio * (x2 - x1), y1 + ratio * (y2 - y1))
interpolate(p1, p2, ratio) ==
    <<num_add(num_int(p1[1]), num_mul(ratio, num_int(p2[1] - p1[1]))),
      num_add(num_int(p1[2]), num_mul(ratio, num_int(p2[2] - p1[2])))>>

\* point_in_segment with the ratio taken from the start of the route.
point_in_segment_from_start(p1, p2, length_i, current_distance, target_distance) ==
    IF num_sign(length_i) = 0 THEN as_point(p1)
    ELSE interpolate(p1, p2, num_div(target_distance, length_i))

\* The target point on the segment p1, p2 of length length_i that starts at
\* current_distance along the route.
point_in_segment(p1, p2, length_i, current_distance, target_distance) ==
    IF num_sign(length_i) = 0 THEN as_point(p1)
    ELSE interpolate(p1, p2,
             num_div(num_sub(target_distance, current_distance), length_i))

\* One round of the loop of get_point_at_distance, at segment i of length
\* length_i, and the rounds after it.
RECURSIVE walk_segments(_, _, _, _)
walk_from(route, i, length_i, current_distance, target_distance) ==
    IF num_le(target_distance, num_add(current_distance, length_i))
    THEN point_in_segment(route[i + 1], route[i + 2], length_i, current_distance,
                          target_distance)
    ELSE walk_segments(route, i + 1, num_add(current_distance, length_i),
                       target_distance)

\* The loop of get_point_at_distance from segment i on, with
\* current_distance the length of the segments before it.
walk_segments(route, i, current_distance, target_distance) ==
    IF i >= Len(route) - 1 THEN as_point(route[Len(route)])
    ELSE walk_from(route, i, segment_length(route, i), current_distance,
                   target_distance)

\* get_point_at_distance without its test of target_distance <= 0.
get_point_at_distance_unguarded(route, target_distance) ==
    IF Len(route) < 2
    THEN IF route # <<>> THEN as_point(route[1]) ELSE as_point(<<0, 0>>)
    ELSE walk_segments(route, 0, num_int(0), target_distance)

get_point_at_distance(route, target_distance) ==
    IF Len(route) < 2
    THEN IF route # <<>> THEN as_point(route[1]) ELSE as_point(<<0, 0>>)
    ELSE IF num_sign(target_distance) <= 0 THEN as_point(route[1])
    ELSE walk_segments(route, 0, num_int(0), target_distance)

get_middle_point(route) ==
    get_point_at_distance(route, num_div(calculate_route_length(route), num_int(2)))

\* The pair (point_1_3, point_2_3) of a route of length total_length.
third_points_of(route, total_length) ==
    <<get_point_at_distance(route, num_div(total_length, num_int(3))),
      get_point_at_distance(route,
          num_div(num_mul(num_int(2), total_length), num_int(3)))>>

get_third_points(route) == third_points_of(route, calculate_route_length(route))

(* ------------------------- feature extraction ------------------------ *)

\* feature_names as extract_route_features builds it.
feature_names_for(include_middle, include_thirds, include_euclidean) ==
    <<"start_x", "start_y", "end_x", "end_y", "length">>
    \o (IF include_middle THEN <<"middle_x", "middle_y">> ELSE <<>>)
    \o (IF include_thirds THEN <<"third1_x", "third1_y", "third2_x", "third2_y">> ELSE <<>>)
    \o (IF include_euclidean THEN <<"euclidean_dist">> ELSE <<>>)

\* The feature vector built from its parts; point_1_3 and point_2_3 are the
\* two values get_third_points returns.
feature_vector_of(start, end, length, middle, point_1_3, point_2_3, euclidean_dist, include_middle, include_thirds, include_euclidean) ==
    <<start[1], start[2], end[1], end[2], length>>
    \o (IF include_middle THEN <<middle[1], middle[2]>> ELSE <<>>)
    \o (IF include_thirds
        THEN <<point_1_3[1], point_1_3[2], point_2_3[1], point_2_3[2]>>
        ELSE <<>>)
    \o (IF include_euclidean THEN <<euclidean_dist>> ELSE <<>>)

\* feature_vector_of with the 2/3 point left out of the thirds.
feature_vector_one_third(start, end, length, middle, point_1_3, point_2_3, euclidean_dist, include_middle, include_thirds, include_euclidean) ==
    <<start[1], start[2], end[1], end[2], length>>
    \o (IF include_middle THEN <<middle[1], middle[2]>> ELSE <<>>)
    \o (IF include_thirds THEN <<point_1_3[1], point_1_3[2]>> ELSE <<>>)
    \o (IF include_euclidean THEN <<euclidean_dist>> ELSE <<>>)

\* The values of get_third_points(route) passed on one by one.
with_third_points(route, thirds, include_middle, include_thirds, include_euclidean) ==
    feature_vector_of(as_point(route[1]), as_point(route[Len(route)]),
                      calculate_route_length(route), get_middle_point(route),
                      thirds[1], thirds[2], calculate_euclidean_distance(route),
                      include_middle, include_thirds, include_euclidean)

\* _extract_single_route_features with the 2/3 point left out of the thirds.
_extract_single_route_features_one_third(route, include_middle, include_thirds, include_euclidean) ==
    feature_vector_one_third(as_point(route[1]), as_point(route[Len(route)]),
                             calculate_route_length(route), get_middle_point(route),
                             get_third_points(route)[1], get_third_points(route)[2],
                             calculate_euclidean_distance(route),
                             include_middle, include_thirds, include_euclidean)

\* The feature vector of one route of at least one point.
_extract_single_route_features(route, include_middle, include_thirds, include_euclidean) ==
    with_third_points(route, get_third_points(route), include_middle, include_thirds,
                      include_euclidean)

\* The row and the label of one route.
labelled_row(route, label, include_middle, include_thirds, include_euclidean) ==
    [feature_vector |->
         _extract_single_route_features(route, include_middle, include_thirds,
                                        include_euclidean),
     label |-> label]

\* extract_committed numbering a label by the row it stands for, not by the
\* route's place in self.routes.
RECURSIVE extract_committed_numbered_by_row(_, _, _, _, _)
extract_committed_numbered_by_row(rs, i, include_middle, include_thirds, include_euclidean) ==
    IF i >= Len(rs) THEN <<>>
    ELSE (IF Len(rs[i + 1]) >= 2
          THEN <<labelled_row(rs[i + 1],
                     "Route "
                         \o ToString(Cardinality({k \in 1 .. (i + 1) : Len(rs[k]) >= 2})),
                     include_middle, include_thirds, include_euclidean)>>
          ELSE <<>>)
         \o extract_committed_numbered_by_row(rs, i + 1, include_middle, include_thirds,
                                              include_euclidean)

\* for i, route in enumerate(self.routes), from i on: the rows and labels of
\* the routes of at least two points.
RECURSIVE extract_committed(_, _, _, _, _)
extract_committed(rs, i, include_middle, include_thirds, include_euclidean) ==
    IF i >= Len(rs) THEN <<>>
    ELSE (IF Len(rs[i + 1]) >= 2
          THEN <<labelled_row(rs[i + 1], "Route " \o ToString(i + 1),
                              include_middle, include_thirds, include_euclidean)>>
          ELSE <<>>)
         \o extract_committed(rs, i + 1, include_middle, include_thirds,
                              include_euclidean)

\* The triple (features, route_labels, feature_names) for the labelled rows
\* of the committed routes and of the current route; features is the
\* sequence of the rows of np.array(features).
extracted_from(rows, feature_names) ==
    [features |-> [k \in 1 .. Len(rows) |-> rows[k].feature_vector],
     route_labels |-> [k \in 1 .. Len(rows) |-> rows[k].label],
     feature_names |-> feature_names]

\* extract_route_features with "and not self.dragging" in the test of the
\* current route: the row of the current route is left out while a point is
\* being dragged.
extract_route_features_unless_dragging(self, include_middle, include_thirds, include_euclidean) ==
    extracted_from(
        extract_committed(self.routes, 0, include_middle, include_thirds,
                          include_euclidean)
        \o (IF Len(self.current_route) >= 2 /\ ~self.dragging
            THEN <<labelled_row(self.current_route, "Current Route",
                                include_middle, include_thirds, include_euclidean)>>
            ELSE <<>>),
        feature_names_for(include_middle, include_thirds, include_euclidean))

extract_route_features(self, include_middle, include_thirds, include_euclidean) ==
    extracted_from(
        extract_committed(self.routes, 0, include_middle, include_thirds,
                          include_euclidean)
        \o (IF Len(self.current_route) >= 2
            THEN <<labelled_row(self.current_route, "Current Route",
                                include_middle, include_thirds, include_euclidean)>>
            ELSE <<>>),
        feature_names_for(include_middle, include_thirds, include_euclidean))

(* ------------------------------ analysis ------------------------------ *)
\* The outcome of an operation of the analysis dialog: the path it took,
\* whether the dialog is open after it, what extract_route_features gave it,
\* in `fitted` the matrices handed to StandardScaler.fit_transform and the
\* reduction algorithms, in `reducers` the reducers constructed with their
\* arguments, and in `error` whether a collaborator raised.

\* The "Dimensionality Analysis" button, which exists when the analysis
\* libraries were imported.
open_analysis_dialog(self) ==
    LET total_routes ==
            Len(self.routes) + (IF Len(self.current_route) >= 2 THEN 1 ELSE 0)
    IN  [path |-> IF total_routes < 2 THEN "warning" ELSE "dialog",
         dialog |-> total_routes >= 2]

\* The algorithms of the dialog's combobox, the values its sliders hand over
\* as n_neighbors or perplexity, and what a collaborator call does: it
\* returns a result or raises a failure.
Algorithms == {"UMAP", "t-SNE", "PCA", "MDS", "Isomap"}

Requests == {1, 2, 15, 50}

Outcomes == {"result", "failure"}

\* What the collaborators of a reduction do, all inside its try block: every
\* call returns ("result"), StandardScaler.fit_transform raises ("failure"),
\* the reducer raises in fit_transform after it was constructed
\* ("reducer_failure"), or the window that shows the embedding raises while
\* it is drawn ("window_failure").
ReductionOutcomes == Outcomes \cup {"reducer_failure", "window_failure"}

min(a, b) == IF a <= b THEN a ELSE b

max(a, b) == IF a >= b THEN a ELSE b

\* params.get(key, default)
params_get(params, key, default) ==
    IF key \in DOMAIN params THEN params[key] ELSE default

\* The algorithm-specific entries of analysis_params that
\* run_dimensionality_analysis clamps; request is the value of the slider
\* of the chosen algorithm.
analysis_params(algorithm, request) ==
    IF algorithm \in {"UMAP", "Isomap"} THEN [k \in {"n_neighbors"} |-> request]
    ELSE IF algorithm = "t-SNE" THEN [k \in {"perplexity"} |-> request]
    ELSE [k \in {} |-> request]

\* The reducer run_dimensionality_analysis creates, with the arguments that
\* depend on the number of samples.
reducer_for(algorithm, n_samples, params) ==
    IF algorithm = "UMAP"
    THEN [algorithm |-> algorithm,
          n_neighbors |-> max(2, min(params_get(params, "n_neighbors", 15), n_samples - 1))]
    ELSE IF algorithm = "t-SNE"
    THEN [algorithm |-> algorithm,
          perplexity |-> max(1, min(params_get(params, "perplexity", 30),
                                    (n_samples - 1) \div 3))]
    ELSE IF algorithm = "Isomap"
    THEN [algorithm |-> algorithm,
          n_neighbors |-> max(2, min(params_get(params, "n_neighbors", 5), n_samples - 1))]
    ELSE [algorithm |-> algorithm]

\* run_dimensionality_analysis: scaler.fit_transform(features), then, when
\* that returned, the reducer, its fit_transform and the results window; a
\* failure of any of them is reported in a message box.
run_dimensionality_analysis(features, algorithm, params, outcome) ==
    [fitted |-> <<features>>,
     reducers |-> IF outcome = "failure"
                  THEN <<>>
                  ELSE <<reducer_for(algorithm, Len(features), params)>>,
     error |-> outcome # "result"]

\* compare_all_algorithms: scaler.fit_transform(features), then, when that
\* returned, the five reducers, their fit_transform and the comparison
\* window.  A reducer that raises in fit_transform is left out of the
\* comparison without a message box; a failure of the scaler or of the
\* window is reported in one.
compare_all_algorithms(features, outcome) ==
    [fitted |-> <<features>>,
     reducers |-> IF outcome # "failure"
                  THEN <<[algorithm |-> "UMAP", n_neighbors |-> min(15, Len(features) - 1)],
                         [algorithm |-> "t-SNE", perplexity |-> min(30, Len(features) - 1)],
                         [algorithm |-> "PCA"],
                         [algorithm |-> "MDS"],
                         [algorithm |-> "Isomap", n_neighbors |-> min(5, Len(features) - 1)]>>
                  ELSE <<>>,
     error |-> outcome \in {"failure", "window_failure"}]

\* The outcome of a closure of the dialog that called `called`.
closure_result(path, final, called) ==
    [path |-> path, dialog |-> FALSE, extracted |-> final, fitted |-> called.fitted,
     reducers |-> called.reducers, error |-> called.error]

\* run_analysis after the extraction, with its result.
run_analysis_of(final, algorithm, request, outcome) ==
    IF Len(final.features) < 2
    THEN [path |-> "warning", dialog |-> TRUE, extracted |-> final, fitted |-> <<>>,
          reducers |-> <<>>, error |-> FALSE]
    ELSE closure_result("run_dimensionality_analysis", final,
             run_dimensionality_analysis(final.features, algorithm,
                 analysis_params(algorithm, request), outcome))

\* The "Run Analysis" button of the dialog.
run_analysis(self, include_middle, include_thirds, include_euclidean, algorithm, request, outcome) ==
    run_analysis_of(extract_route_features(self, include_middle, include_thirds,
                                           include_euclidean),
                    algorithm, request, outcome)

\* compare_all after the extraction, with its result.
compare_all_of(final, outcome) ==
    closure_result("compare_all_algorithms", final,
                   compare_all_algorithms(final.features, outcome))

\* The "Compare All" button of the dialog.
compare_all(self, include_middle, include_thirds, include_euclidean, outcome) ==
    compare_all_of(extract_route_features(self, include_middle, include_thirds,
                                          include_euclidean), outcome)

(* ----------------------------- clustering ---------------------------- *)
\* The results window of show_analysis_results, its "Apply Clustering" and
\* "Highlight Routes" buttons.

\* The attribute last_clustering_results is not set.
NoResults == [labels |-> <<>>, cluster_labels |-> <<>>, colors |-> <<>>, at |-> <<>>]

\* cluster_colors of generate_cluster_colors, the colour of noise points and
\* the default colour of highlight_original_routes_by_clusters.
cluster_colors ==
    <<"#FF6B6B", "#4ECDC4", "#45B7D1", "#FFA07A", "#98D8C8",
      "#F7DC6F", "#BB8FCE", "#85C1E9", "#F8C471", "#82E0AA",
      "#F1948A", "#85C9F5", "#F9E79F", "#D7BDE2", "#A9DFBF">>

Gray == "#808080"

DefaultColor == "#0000FF"

\* color_idx when the loop over np.unique(cluster_labels), which is sorted,
\* reaches cluster_id, with noise counted as a cluster.
color_idx_counting_noise(cluster_labels, cluster_id) ==
    Cardinality({cluster_labels[i] : i \in 1 .. Len(cluster_labels)}
                    \cap (-1 .. cluster_id - 1))

\* color_idx when the loop over np.unique(cluster_labels), which is sorted,
\* reaches cluster_id: the number of clusters below it other than noise.
color_idx(cluster_labels, cluster_id) ==
    Cardinality({cluster_labels[i] : i \in 1 .. Len(cluster_labels)}
                    \cap (0 .. cluster_id - 1))

\* cluster_color_map[cluster_id] when noise is coloured like any other cluster.
cluster_color_map_noise_as_cluster(cluster_labels, cluster_id) ==
    cluster_colors[(color_idx_counting_noise(cluster_labels, cluster_id)
                        % Len(cluster_colors)) + 1]

\* cluster_color_map[cluster_id]
cluster_color_map(cluster_labels, cluster_id) ==
    IF cluster_id = -1 THEN Gray
    ELSE cluster_colors[(color_idx(cluster_labels, cluster_id) % Len(cluster_colors)) + 1]

generate_cluster_colors(cluster_labels) ==
    [i \in 1 .. Len(cluster_labels) |-> cluster_color_map(cluster_labels, cluster_labels[i])]

\* The position in the store of the route that extract_route_features
\* labelled `label`.
position_of(label, self) ==
    IF label = "Current Route" THEN -1
    ELSE CHOOSE k \in 0 .. Len(self.routes) - 1 : label = "Route " \o ToString(k + 1)

\* show_analysis_results: the window whose buttons hold the labels.
show_analysis_results(labels, self) ==
    [labels |-> labels, at |-> [i \in 1 .. Len(labels) |-> position_of(labels[i], self)]]

\* Where the route at position pos of `self` is after a handler with the
\* given outcome: New Route appends the current route to routes, Clear All
\* drops every route, the removal of the only point of a committed route
\* deletes the route and moves the later ones down.
moved(pos, self, result) ==
    IF pos = None \/ result.path = "cleared" THEN None
    ELSE IF result.path = "saved"
    THEN IF pos = -1 THEN Len(self.routes) ELSE pos
    ELSE IF result.path = "removed_and_deleted_route"
    THEN IF pos = result.ref[1] THEN None
         ELSE IF pos > result.ref[1] THEN pos - 1
         ELSE pos
    ELSE pos

\* The window or the clustering results after a handler: the labels stay,
\* `at` follows the routes.
followed(held, self, result) ==
    [held EXCEPT !.at = [i \in 1 .. Len(held.at) |-> moved(held.at[i], self, result)]]

\* The labels a clusterer may give n samples: every one its own cluster, and
\* noise for the first with one cluster for the others.
ClusterLabels(n) ==
    {[i \in 1 .. n |-> i - 1], [i \in 1 .. n |-> IF i = 1 THEN -1 ELSE 0]}

\* apply_clustering_to_embedding for the labels of the window:
\* clusterer.fit_predict returns cluster_labels or a collaborator raises.
apply_clustering_to_embedding(window, results, cluster_labels, outcome) ==
    IF outcome = "result"
    THEN [path |-> "clustered",
          last_clustering_results |->
              [labels |-> window.labels, cluster_labels |-> cluster_labels,
               colors |-> generate_cluster_colors(cluster_labels), at |-> window.at]]
    ELSE [path |-> "error", last_clustering_results |-> results]

\* route_to_cluster[route_label]['color']: the entry of the last label equal
\* to route_label.
route_to_cluster(results, route_label) ==
    results.colors[CHOOSE i \in 1 .. Len(results.labels) :
                       /\ results.labels[i] = route_label
                       /\ \A j \in i + 1 .. Len(results.labels) :
                              results.labels[j] # route_label]

\* The colour highlight_original_routes_by_clusters draws the route labelled
\* route_label in.
highlight_color(results, route_label) ==
    IF \E i \in 1 .. Len(results.labels) : results.labels[i] = route_label
    THEN route_to_cluster(results, route_label)
    ELSE DefaultColor

\* highlight_original_routes_by_clusters without the check for
\* last_clustering_results: every route finds no entry.
highlight_original_routes_by_clusters_unchecked(self, results, outcome) ==
    IF outcome # "result" THEN [path |-> "error", routes |-> <<>>, current_route |-> ""]
    ELSE [path |-> "highlighted",
          routes |-> [i \in 1 .. Len(self.routes) |->
                         highlight_color(results, "Route " \o ToString(i))],
          current_route |-> IF self.current_route # <<>>
                            THEN highlight_color(results, "Current Route")
                            ELSE ""]

\* highlight_original_routes_by_clusters: the colours the committed routes
\* and the current route are drawn in ("" for a route that is not drawn).
highlight_original_routes_by_clusters(self, results, outcome) ==
    IF results = NoResults THEN [path |-> "warning", routes |-> <<>>, current_route |-> ""]
    ELSE IF outcome # "result" THEN [path |-> "error", routes |-> <<>>, current_route |-> ""]
    ELSE [path |-> "highlighted",
          routes |-> [i \in 1 .. Len(self.routes) |->
                         highlight_color(results, "Route " \o ToString(i))],
          current_route |-> IF self.current_route # <<>>
                            THEN highlight_color(results, "Current Route")
                            ELSE ""]

(* --------------------------- state machine ---------------------------- *)

\* The object as __init__ leaves it.
Constructed ==
    /\ routes = <<>>
    /\ current_route = <<>>
    /\ shared = {}
    /\ dragging = FALSE
    /\ drag_route_idx = None
    /\ drag_point_idx = None
    /\ last = [op |-> "__init__", path |-> "done", ref |-> NotFound]
    /\ results_windows = <<>>
    /\ last_clustering_results = NoResults
    /\ pow_above \in BOOLEAN

Init == Constructed /\ calc = NoCalc

\* Handler `op` ran with outcome `result`.
Handled(op, result) ==
    /\ routes' = result.self.routes
    /\ current_route' = result.self.current_route
    /\ shared' = result.self.shared
    /\ dragging' = result.self.dragging
    /\ drag_route_idx' = result.self.drag_route_idx
    /\ drag_point_idx' = result.self.drag_point_idx
    /\ last' = [op |-> op, path |-> result.path, ref |-> result.ref]
    /\ results_windows' = [w \in 1 .. Len(results_windows) |->
                               followed(results_windows[w], Self, result)]
    /\ last_clustering_results' = followed(last_clustering_results, Self, result)
    /\ pow_above' = pow_above
    /\ calc' = calc

\* The event loop runs handler `op`, whose outcome is `result`.
Handle(op, result) == TotalPoints(result.self) <= MaxPoints /\ Handled(op, result)

\* <Button-1>
Button1 == \E c \in Clicks : Handle("on_left_click", on_left_click(Self, c[1], c[2]))

\* <Button-3>
Button3 == \E c \in Clicks : Handle("on_right_click", on_right_click(Self, c[1], c[2]))

\* <ButtonRelease-1>
ButtonRelease1 == \E c \in Clicks : Handle("on_left_release", on_left_release(Self, c[1], c[2]))

\* <B1-Motion>
B1Motion == \E c \in Clicks : Handle("on_drag", on_drag(Self, c[1], c[2]))

\* <Motion>
Motion == \E c \in Clicks : Handle("on_mouse_move", on_mouse_move(Self, c[1], c[2]))

\* The "New Route" button.
NewRoute == Handle("start_new_route", start_new_route(Self))

\* The "Clear All" button.
ClearAll == Handle("clear_all", clear_all(Self))

\* The "Undo Last Point" button.
UndoLastPoint == Handle("undo_last_point", undo_last_point(Self))

Next ==
    \/ Button1
    \/ Button3
    \/ ButtonRelease1
    \/ B1Motion
    \/ Motion
    \/ NewRoute
    \/ ClearAll
    \/ UndoLastPoint

Spec == Init /\ [][Next]_vars

(* ------------------- the store operations called directly ------------- *)
\* remove_point and insert_point_in_route as a caller other than the
\* handlers may call them, with arguments that need not denote a point, on
\* stores built by left clicks and New Route.

RouteArgs == -2 .. MaxPoints

IndexArgs == -1 .. MaxPoints

GridPoints == {<<canvas_to_coord_x(c[1]), canvas_to_coord_y(c[2])>> : c \in Clicks}

CallRemovePoint ==
    \E r \in RouteArgs, i \in IndexArgs :
        LET res == remove_point(Self, r, i)
        IN  Handle("remove_point", [self |-> res.self, path |-> res.path, ref |-> NotFound])

CallInsertPoint ==
    \E r \in RouteArgs, i \in IndexArgs, p \in GridPoints :
        LET res == insert_point_in_route(Self, r, i, p)
        IN  Handle("insert_point_in_route",
                   [self |-> res.self, path |-> res.path, ref |-> NotFound])

NextStore ==
    \/ Button1
    \/ NewRoute
    \/ CallRemovePoint
    \/ CallInsertPoint

SpecStore == Init /\ [][NextStore]_vars

(* ---------------------- the coordinate conversions -------------------- *)
\* A grid point is converted to its canvas position and back.

CoordRange == (0 - MaxCoord) .. MaxCoord

InitCoord ==
    /\ Constructed
    /\ \E p \in CoordRange \X CoordRange : calc = [fn |-> "point", point |-> p]

CoordToCanvas ==
    /\ calc.fn = "point"
    /\ calc' = [fn |-> "coord_to_canvas",
                point |-> calc.point,
                canvas |-> <<coord_to_canvas_x(calc.point[1]),
                             coord_to_canvas_y(calc.point[2])>>]
    /\ UNCHANGED objvars

CanvasToCoord ==
    /\ calc.fn = "coord_to_canvas"
    /\ calc' = [fn |-> "canvas_to_coord",
                point |-> calc.point,
                canvas |-> calc.canvas,
                coord |-> <<canvas_to_coord_x(calc.canvas[1]),
                            canvas_to_coord_y(calc.canvas[2])>>]
    /\ UNCHANGED objvars

NextCoord == CoordToCanvas \/ CanvasToCoord

SpecCoord == InitCoord /\ [][NextCoord]_vars

(* ----------------------- the analysis of a store ---------------------- *)
\* The analysis dialog and extract_route_features on a store that the
\* pointer events have built: committed routes of at least one point each,
\* any current route, no drag under way.  The dialog is modal, so the store
\* stays as it is while the dialog is open.  One operation runs at a time:
\* calc holds its outcome until the caller has taken it (Return), and the next
\* operation starts from there.

\* Committed routes: of one point, of length 5 and with a repeated point and
\* a diagonal segment.
SampleRoutes ==
    {<<<<0, 0>>>>,
     <<<<0, 0>>, <<3, 4>>>>,
     <<<<1, 1>>, <<1, 1>>, <<2, 2>>>>}

\* Current routes: empty, of one point and of length 13.
SampleCurrent ==
    {<<>>,
     <<<<2, 0>>>>,
     <<<<0, 0>>, <<5, 12>>>>}

InitAnalysis ==
    /\ routes \in UNION {[1 .. n -> SampleRoutes] : n \in 0 .. MaxRoutes}
    /\ current_route \in SampleCurrent
    /\ shared = {}
    /\ dragging = FALSE
    /\ drag_route_idx = None
    /\ drag_point_idx = None
    /\ last = [op |-> "store", path |-> "built", ref |-> NotFound]
    /\ results_windows = <<>>
    /\ last_clustering_results = NoResults
    /\ pow_above \in BOOLEAN
    /\ calc = [fn |-> "store", dialog |-> FALSE]

\* No operation of the analysis is under way.
Idle == calc.fn = "store"

\* The results windows after an operation of the analysis:
\* run_dimensionality_analysis shows a new one when no collaborator raised,
\* and the windows that are open stay.
windows_after(windows, self, result) ==
    IF result.path = "run_dimensionality_analysis" /\ ~result.error
    THEN Append(windows, show_analysis_results(result.extracted.route_labels, self))
    ELSE windows

\* Analyse with "self.current_route = []" in the operation.
Analyse_rebinding_current(fn, toggles, result) ==
    /\ calc' = [fn |-> fn, toggles |-> toggles, path |-> result.path,
                dialog |-> result.dialog, extracted |-> result.extracted,
                fitted |-> result.fitted, reducers |-> result.reducers,
                error |-> result.error]
    /\ results_windows' = windows_after(results_windows, Self, result)
    /\ Len(results_windows') <= MaxWindows
    /\ current_route' = <<>>
    /\ UNCHANGED <<routes, shared, dragging, drag_route_idx, drag_point_idx, last,
                   last_clustering_results, pow_above>>

\* An operation of the analysis ran with the given toggles and outcome.
Analyse(fn, toggles, result) ==
    /\ calc' = [fn |-> fn, toggles |-> toggles, path |-> result.path,
                dialog |-> result.dialog, extracted |-> result.extracted,
                fitted |-> result.fitted, reducers |-> result.reducers,
                error |-> result.error]
    /\ results_windows' = windows_after(results_windows, Self, result)
    /\ Len(results_windows') <= MaxWindows
    /\ UNCHANGED <<storevars, last_clustering_results, pow_above>>

\* The toggles of the dialog, as (middle, thirds, euclidean).
Toggles == BOOLEAN \X BOOLEAN \X BOOLEAN

\* extract_route_features called directly.
ExtractRouteFeatures ==
    /\ Idle
    /\ \E toggles \in Toggles :
           Analyse("extract_route_features", toggles,
                   [path |-> "extracted", dialog |-> calc.dialog,
                    extracted |-> extract_route_features(Self, toggles[1], toggles[2], toggles[3]),
                    fitted |-> <<>>, reducers |-> <<>>, error |-> FALSE])

OpenAnalysisDialog ==
    /\ Idle
    /\ ~calc.dialog
    /\ calc' = [fn |-> "open_analysis_dialog",
                path |-> open_analysis_dialog(Self).path,
                dialog |-> open_analysis_dialog(Self).dialog]
    /\ UNCHANGED objvars

\* "Run Analysis" with the extraction `final` of the toggles.
RunAnalysisOn(toggles, final) ==
    \E algorithm \in Algorithms, request \in Requests, outcome \in ReductionOutcomes :
        Analyse("run_analysis", toggles, run_analysis_of(final, algorithm, request, outcome))

RunAnalysis ==
    /\ Idle
    /\ calc.dialog
    /\ \E toggles \in Toggles :
           RunAnalysisOn(toggles,
               extract_route_features(Self, toggles[1], toggles[2], toggles[3]))

\* "Compare All" with the extraction `final` of the toggles.
CompareAllOn(toggles, final) ==
    \E outcome \in ReductionOutcomes :
        Analyse("compare_all", toggles, compare_all_of(final, outcome))

CompareAll ==
    /\ Idle
    /\ calc.dialog
    /\ \E toggles \in Toggles :
           CompareAllOn(toggles,
               extract_route_features(Self, toggles[1], toggles[2], toggles[3]))

\* The "Cancel" button of the dialog.
CancelDialog ==
    /\ Idle
    /\ calc.dialog
    /\ calc' = [fn |-> "cancel", dialog |-> FALSE]
    /\ UNCHANGED objvars

\* The "Apply Clustering" button of the results window.
ApplyClustering ==
    /\ Idle
    /\ ~calc.dialog
    /\ \E w \in 1 .. Len(results_windows) :
       \E cluster_labels \in ClusterLabels(Len(results_windows[w].labels)),
          outcome \in Outcomes :
           LET result == apply_clustering_to_embedding(results_windows[w],
                             last_clustering_results, cluster_labels, outcome)
           IN  /\ calc' = [fn |-> "apply_clustering", path |-> result.path, dialog |-> FALSE]
               /\ last_clustering_results' = result.last_clustering_results
    /\ UNCHANGED <<storevars, results_windows, pow_above>>

\* The "Highlight Routes" button of the results window.
HighlightRoutes ==
    /\ Idle
    /\ ~calc.dialog
    /\ results_windows # <<>>
    /\ \E outcome \in Outcomes :
           LET result == highlight_original_routes_by_clusters(Self,
                             last_clustering_results, outcome)
           IN  calc' = [fn |-> "highlight_routes", path |-> result.path, dialog |-> FALSE,
                        routes |-> result.routes, current_route |-> result.current_route]
    /\ UNCHANGED objvars

\* The "Close" button of a results window: that window is destroyed, the
\* others stay open.
CloseResults ==
    /\ Idle
    /\ ~calc.dialog
    /\ \E w \in 1 .. Len(results_windows) :
           results_windows' = SubSeq(results_windows, 1, w - 1)
                                  \o SubSeq(results_windows, w + 1, Len(results_windows))
    /\ calc' = [fn |-> "close", dialog |-> FALSE]
    /\ UNCHANGED <<storevars, last_clustering_results, pow_above>>

\* The operation has returned; the dialog stays as the operation left it.
Return ==
    /\ ~Idle
    /\ calc' = [fn |-> "store", dialog |-> calc.dialog]
    /\ UNCHANGED objvars

NextAnalysis ==
    \/ ExtractRouteFeatures
    \/ OpenAnalysisDialog
    \/ RunAnalysis
    \/ CompareAll
    \/ CancelDialog
    \/ ApplyClustering
    \/ HighlightRoutes
    \/ CloseResults
    \/ Return

SpecAnalysis == InitAnalysis /\ [][NextAnalysis]_vars

(* ---------------- the results window over an edited store ------------- *)
\* The results window is not modal: while it is open the routes can be
\* edited.  The stores are stores that Run Analysis opens a results window
\* for, with the window open; the edits are right clicks, New Route and
\* Clear All, and they add no point.

\* Committed routes and current routes within reach of the clicks: a route
\* of one point, which a right click deletes, and routes of two points.
EditedRoutes ==
    {<<<<0, 1>>>>,
     <<<<0, 0>>, <<1, 0>>>>,
     <<<<1, 0>>, <<0, 1>>>>}

EditedCurrent ==
    {<<>>,
     <<<<0, 0>>, <<0, 1>>>>}

InitHighlight ==
    /\ routes \in UNION {[1 .. n -> EditedRoutes] : n \in 0 .. MaxRoutes}
    /\ current_route \in EditedCurrent
    /\ shared = {}
    /\ dragging = FALSE
    /\ drag_route_idx = None
    /\ drag_point_idx = None
    /\ last = [op |-> "store", path |-> "built", ref |-> NotFound]
    /\ results_windows =
           <<show_analysis_results(
                 extract_route_features(Self, FALSE, FALSE, FALSE).route_labels, Self)>>
    /\ Len(results_windows[1].labels) >= 2
    /\ last_clustering_results = NoResults
    /\ pow_above \in BOOLEAN
    /\ calc = [fn |-> "store", dialog |-> FALSE]

\* The event loop runs handler `op` between two operations of the window.
Edit(op, result) ==
    /\ Idle
    /\ TotalPoints(result.self) <= TotalPoints(Self)
    /\ Handled(op, result)

EditButton3 == \E c \in Clicks : Edit("on_right_click", on_right_click(Self, c[1], c[2]))

EditNewRoute == Edit("start_new_route", start_new_route(Self))

EditClearAll == Edit("clear_all", clear_all(Self))

NextHighlight ==
    \/ EditButton3
    \/ EditNewRoute
    \/ EditClearAll
    \/ ApplyClustering
    \/ HighlightRoutes
    \/ CloseResults
    \/ Return

SpecHighlight == InitHighlight /\ [][NextHighlight]_vars

(* ------------- extract_route_features between pointer events ---------- *)
\* extract_route_features is called and the caller keeps what the first call
\* returned; pointer events are handled, which start and end drags, move and
\* remove points; and extract_route_features is called again, in whatever
\* state the events have left the object.  The stores are within reach of
\* the clicks, and the events add no point.

\* The toggles (middle, thirds, euclidean) of the calls: none and all.
ExtractToggles == {<<FALSE, FALSE, FALSE>>, <<TRUE, TRUE, TRUE>>}

InitExtract ==
    /\ routes \in UNION {[1 .. n -> EditedRoutes] : n \in 0 .. MaxExtracted}
    /\ current_route \in EditedCurrent
    /\ shared = {}
    /\ dragging = FALSE
    /\ drag_route_idx = None
    /\ drag_point_idx = None
    /\ last = [op |-> "store", path |-> "built", ref |-> NotFound]
    /\ results_windows = <<>>
    /\ last_clustering_results = NoResults
    /\ pow_above \in BOOLEAN
    /\ calc = [fn |-> "store", kept |-> <<>>]

\* features, route_labels, feature_names = self.extract_route_features(...)
CallExtractRouteFeatures ==
    /\ Idle
    /\ \E toggles \in ExtractToggles :
           calc' = [fn |-> "extract_route_features", toggles |-> toggles,
                    extracted |-> extract_route_features(Self, toggles[1], toggles[2],
                                                         toggles[3]),
                    kept |-> calc.kept]
    /\ UNCHANGED objvars

\* The call has returned; the caller keeps the routes the first call ran on,
\* whether a drag was under way, its toggles and what it returned.
ReturnExtracted ==
    /\ calc.fn = "extract_route_features"
    /\ calc' = [fn |-> "store",
                kept |-> IF calc.kept = <<>>
                         THEN <<[routes |-> routes, current_route |-> current_route,
                                 dragging |-> dragging, toggles |-> calc.toggles,
                                 extracted |-> calc.extracted]>>
                         ELSE calc.kept]
    /\ UNCHANGED objvars

\* The position of the pointer events between the calls: 8 pixels from the
\* grid point (0, 0), which a press there drags, a release puts back where it
\* was and a right click removes.
ExtractClicks == {<<8, 0>>}

EditButton1 ==
    \E c \in ExtractClicks : Edit("on_left_click", on_left_click(Self, c[1], c[2]))

EditButtonRelease1 ==
    \E c \in ExtractClicks : Edit("on_left_release", on_left_release(Self, c[1], c[2]))

EditRightClick ==
    \E c \in ExtractClicks : Edit("on_right_click", on_right_click(Self, c[1], c[2]))

NextExtract ==
    \/ CallExtractRouteFeatures
    \/ ReturnExtracted
    \/ EditButton1
    \/ EditButtonRelease1
    \/ EditRightClick

SpecExtract == InitExtract /\ [][NextExtract]_vars

(* --------------------- the arc-length functions ----------------------- *)
\* calculate_route_length, get_point_at_distance and get_middle_point called
\* on a route: every route of at most MaxLen grid points that the pointer
\* events can give, which includes repeated points, zero-length segments and
\* diagonal ones, and two routes with longer segments.

RECURSIVE RoutesOfLen(_)
RoutesOfLen(n) ==
    IF n = 0 THEN {<<>>}
    ELSE {Append(r, p) : r \in RoutesOfLen(n - 1), p \in GridPoints}

LongRoutes ==
    {<<<<0, 0>>, <<10, 0>>, <<10, 10>>>>,
     <<<<0, 0>>, <<3, 4>>>>}

ArcRoutes == UNION {RoutesOfLen(n) : n \in 0 .. MaxLen} \cup LongRoutes

\* The distances asked for on a route of the given length: below zero, zero,
\* whole numbers, the length itself, its half and more than the length.
ArcTargets(length) ==
    {num_int(k) : k \in {-1, 0, 1, 2, 15}}
        \cup {length, num_div(length, num_int(2)), num_add(length, num_int(1))}

InitArc ==
    /\ Constructed
    /\ \E route \in ArcRoutes : calc = [fn |-> "route", route |-> route]

CalculateRouteLength ==
    /\ calc.fn = "route"
    /\ calc' = [fn |-> "calculate_route_length", route |-> calc.route,
                total_length |-> calculate_route_length(calc.route)]
    /\ UNCHANGED objvars

GetPointAtDistance ==
    /\ calc.fn = "route"
    /\ \E target_distance \in ArcTargets(calculate_route_length(calc.route)) :
           calc' = [fn |-> "get_point_at_distance", route |-> calc.route,
                    target_distance |-> target_distance,
                    point |-> get_point_at_distance(calc.route, target_distance)]
    /\ UNCHANGED objvars

GetMiddlePoint ==
    /\ calc.fn = "route"
    /\ calc' = [fn |-> "get_middle_point", route |-> calc.route,
                point |-> get_middle_point(calc.route)]
    /\ UNCHANGED objvars

NextArc ==
    \/ CalculateRouteLength
    \/ GetPointAtDistance
    \/ GetMiddlePoint

SpecArc == InitArc /\ [][NextArc]_vars

(* ------------------------------ claims -------------------------------- *)

\* Whether (r, i) denotes an existing point of the store.
ValidPointRef(self, r, i) ==
    \/ r = -1 /\ 0 <= i /\ i < Len(self.current_route)
    \/ 0 <= r /\ r < Len(self.routes) /\ 0 <= i /\ i < Len(self.routes[r + 1])

\* The references of all points, and the point a reference denotes.
PointRefs(self) ==
    {<<-1, i>> : i \in 0 .. (Len(self.current_route) - 1)}
    \cup UNION {{<<r, i>> : i \in 0 .. (Len(self.routes[r + 1]) - 1)} :
                r \in 0 .. (Len(self.routes) - 1)}

PointAt(self, ref) ==
    IF ref[1] = -1 THEN self.current_route[ref[2] + 1]
    ELSE self.routes[ref[1] + 1][ref[2] + 1]

\* a comes before b in the scan order: the current route, then the committed
\* routes by index, each by point index.
ScanBefore(a, b) ==
    \/ a[1] = -1 /\ b[1] # -1
    \/ a[1] = b[1] /\ a[2] < b[2]
    \/ a[1] # -1 /\ b[1] # -1 /\ a[1] < b[1]

\* The device-space distance from position c to grid point p is at most the
\* click tolerance.
WithinTolerance(p, c) ==
    LET dx == c[1] - (origin_x + p[1] * grid_size)
        dy == c[2] - (origin_y + p[2] * grid_size)
    IN  dx * dx + dy * dy <= click_tolerance * click_tolerance

ToGrid(c) == <<canvas_to_coord_x(c[1]), canvas_to_coord_y(c[2])>>

\* C1: in every state in which the session is Dragging, the held target
\* (drag_route_idx, drag_point_idx) denotes an existing point of the store.
C1_DragTargetValid ==
    dragging => ValidPointRef(Self, drag_route_idx, drag_point_idx)

\* C2: every route stored in committed has at least one point.
C2_NoEmptyCommitted == \A k \in 1 .. Len(routes) : Len(routes[k]) >= 1

\* A right-click has just removed the only point of a committed route, which
\* was deleted, and committed routes remain.
C2_Witness ==
    /\ last.op = "on_right_click"
    /\ last.path = "removed_and_deleted_route"
    /\ routes # <<>>

\* C3: a pointerUp handled while the session is Dragging leaves the session
\* Idle: dragging is false and the drag target is cleared.
C3_ReleaseEndsDrag ==
    [][(dragging /\ last'.op = "on_left_release")
         => (~dragging' /\ drag_route_idx' = None /\ drag_point_idx' = None)]_vars

\* C4: a drag commit whose held reference no longer denotes an existing point
\* raises no error and leaves committed and current unchanged.
C4_StaleCommitIsNoOp ==
    [][(/\ dragging
        /\ ~ValidPointRef(Self, drag_route_idx, drag_point_idx)
        /\ last'.op = "on_left_release")
         => (/\ routes' = routes
             /\ current_route' = current_route
             /\ last'.path # "IndexError")]_vars

\* C5: remove_point on a committed route of exactly one point deletes the
\* route: committed is one shorter, the routes below keep index and content,
\* the routes above keep their content one index lower; remove_point on the
\* only point of the current route leaves current empty and committed
\* unchanged.
C5_RemoveOnlyPoint ==
    /\ \A r \in 0 .. (Len(routes) - 1) :
           Len(routes[r + 1]) = 1 =>
               LET T == remove_point(Self, r, 0).self
               IN  /\ Len(T.routes) = Len(routes) - 1
                   /\ \A j \in 1 .. r : T.routes[j] = routes[j]
                   /\ \A j \in (r + 2) .. Len(routes) : T.routes[j - 1] = routes[j]
                   /\ T.current_route = current_route
    /\ Len(current_route) = 1 =>
           LET T == remove_point(Self, -1, 0).self
           IN  T.current_route = <<>> /\ T.routes = routes

\* A right-click has just deleted the committed route at index 1, between a
\* route below it and a route that moved down.
C5_Witness ==
    /\ last.op = "on_right_click"
    /\ last.path = "removed_and_deleted_route"
    /\ last.ref = <<1, 0>>
    /\ Len(routes) = 2

\* C6: remove_point with a reference that denotes no point, and
\* insert_point_in_route with a route reference that is neither -1 nor an
\* index of committed, change nothing.
C6_InvalidReferenceNoOp ==
    /\ \A r \in RouteArgs, i \in IndexArgs :
           ~ValidPointRef(Self, r, i) => remove_point(Self, r, i).self = Self
    /\ \A r \in RouteArgs, i \in IndexArgs, p \in GridPoints :
           (r # -1 /\ ~(0 <= r /\ r < Len(routes)))
               => insert_point_in_route(Self, r, i, p).self = Self

\* remove_point has just been called with a reference that denotes no point,
\* on a store that holds committed and current points.
C6_Witness ==
    /\ last.op = "remove_point"
    /\ last.path = "remove_noop"
    /\ routes # <<>>
    /\ current_route # <<>>

\* C7: start_new_route with a non-empty current appends a route equal to
\* current at the end of committed, keeps the earlier routes and empties
\* current; with an empty current it leaves committed unchanged; a second
\* call right after the first changes nothing.
C7_StartNewRoute ==
    LET T == start_new_route(Self).self
    IN  /\ T.current_route = <<>>
        /\ IF current_route # <<>>
           THEN /\ Len(T.routes) = Len(routes) + 1
                /\ T.routes[Len(T.routes)] = current_route
                /\ \A j \in 1 .. Len(routes) : T.routes[j] = routes[j]
           ELSE T.routes = routes
        /\ start_new_route(T).self = T

\* New Route has just committed a route behind an earlier one.
C7_Witness ==
    /\ last.op = "start_new_route"
    /\ last.path = "saved"
    /\ Len(routes) >= 2
    /\ current_route = <<>>

\* C8: the current route is never the list object of a committed route, and
\* no operation that targets the current route (left-click add, Undo,
\* right-click remove or insert on current, drag commit with the -1 sentinel)
\* changes a committed route.
C8_CurrentNotShared ==
    /\ shared = {}
    /\ undo_last_point(Self).self.routes = routes
    /\ \A c \in Clicks :
           LET point_info == find_point_at_position(Self, c[1], c[2])
               line_info == find_line_at_position(Self, c[1], c[2])
           IN  /\ point_info = NotFound
                      => on_left_click(Self, c[1], c[2]).self.routes = routes
               /\ (\/ point_info # NotFound /\ point_info[1] = -1
                   \/ point_info = NotFound /\ line_info # NotFound /\ line_info[1] = -1)
                      => on_right_click(Self, c[1], c[2]).self.routes = routes
               /\ (dragging /\ drag_route_idx = -1)
                      => on_left_release(Self, c[1], c[2]).self.routes = routes

\* A left click has just added a point to the current route while committed
\* routes exist.
C8_Witness ==
    /\ last.op = "on_left_click"
    /\ last.path = "add"
    /\ routes # <<>>
    /\ Len(current_route) >= 2

\* C9: a pointerDown at a position where find_point_at_position hits starts
\* a drag of exactly the reference found and leaves committed and current
\* unchanged; where it misses, it appends the one point toGrid(pos) to
\* current, leaves committed and the earlier points of current unchanged, and
\* leaves the session Idle.
C9_PointerDown ==
    \A c \in Clicks :
        LET info == find_point_at_position(Self, c[1], c[2])
            T == on_left_click(Self, c[1], c[2]).self
        IN  IF info # NotFound
            THEN /\ T.dragging
                 /\ T.drag_route_idx = info[1]
                 /\ T.drag_point_idx = info[2]
                 /\ T.routes = routes
                 /\ T.current_route = current_route
            ELSE /\ Len(T.current_route) = Len(current_route) + 1
                 /\ T.current_route[Len(T.current_route)] = ToGrid(c)
                 /\ SubSeq(T.current_route, 1, Len(current_route)) = current_route
                 /\ T.routes = routes
                 /\ ~T.dragging

SegmentRefs(self) ==
    {<<-1, i>> : i \in 0 .. (Len(self.current_route) - 2)}
    \cup UNION {{<<r, i>> : i \in 0 .. (Len(self.routes[r + 1]) - 2)} :
                r \in 0 .. (Len(self.routes) - 1)}

\* The device-space distance from position c to the segment between grid
\* points a and b is at most the click tolerance, and a # b: the distance to
\* the nearer endpoint when the projection of c falls outside the segment,
\* else the perpendicular distance |cross| / |b - a|.
SegmentWithinTolerance(a, b, c) ==
    LET dx == (b[1] - a[1]) * grid_size
        dy == (b[2] - a[2]) * grid_size
        px == c[1] - (origin_x + a[1] * grid_size)
        py == c[2] - (origin_y + a[2] * grid_size)
        len_sq == dx * dx + dy * dy
        dot == px * dx + py * dy
        cross == px * dy - py * dx
    IN  /\ a # b
        /\ IF dot <= 0 THEN WithinTolerance(a, c)
           ELSE IF dot >= len_sq THEN WithinTolerance(b, c)
           ELSE cross * cross <= click_tolerance * click_tolerance * len_sq

SegmentMatches(self, seg, c) ==
    SegmentWithinTolerance(PointAt(self, seg), PointAt(self, <<seg[1], seg[2] + 1>>), c)

\* The route lst without its element at Python index i.
Without(lst, i) ==
    [j \in 1 .. (Len(lst) - 1) |-> IF j <= i THEN lst[j] ELSE lst[j + 1]]

\* The route lst with p as its new element at Python index i.
With(lst, i, p) ==
    [j \in 1 .. (Len(lst) + 1) |->
        IF j <= i THEN lst[j] ELSE IF j = i + 1 THEN p ELSE lst[j - 1]]

\* The committed routes rs with the route at Python index r replaced by new,
\* or dropped when new is empty.
WithRoute(rs, r, new) ==
    IF new = <<>>
    THEN [j \in 1 .. (Len(rs) - 1) |-> IF j <= r THEN rs[j] ELSE rs[j + 1]]
    ELSE [j \in 1 .. Len(rs) |-> IF j = r + 1 THEN new ELSE rs[j]]

\* C12: a right-click at a position where find_point_at_position hits removes
\* that point and inserts nothing, also when a line is hit there; else where
\* find_line_at_position hits segment (r, i) it inserts toGrid(pos) into route
\* r at index i + 1 and changes no other route; else it leaves committed and
\* current unchanged.  The drag state and its target are unchanged in every
\* case.
C12_RightClick ==
    \A c \in Clicks :
        LET info == find_point_at_position(Self, c[1], c[2])
            line == find_line_at_position(Self, c[1], c[2])
            T == on_right_click(Self, c[1], c[2]).self
        IN  /\ T.dragging = dragging
            /\ T.drag_route_idx = drag_route_idx
            /\ T.drag_point_idx = drag_point_idx
            /\ IF info # NotFound
               THEN IF info[1] = -1
                    THEN /\ T.current_route = Without(current_route, info[2])
                         /\ T.routes = routes
                    ELSE /\ T.current_route = current_route
                         /\ T.routes = WithRoute(routes, info[1],
                                           Without(routes[info[1] + 1], info[2]))
               ELSE IF line # NotFound
               THEN IF line[1] = -1
                    THEN /\ T.current_route = With(current_route, line[2] + 1, ToGrid(c))
                         /\ T.routes = routes
                    ELSE /\ T.current_route = current_route
                         /\ T.routes = WithRoute(routes, line[1],
                                           With(routes[line[1] + 1], line[2] + 1, ToGrid(c)))
               ELSE T.routes = routes /\ T.current_route = current_route

\* A right-click during a drag has just inserted a point into the segment it
\* found in the current route; the session still drags its target.
C12_Witness ==
    /\ last.op = "on_right_click"
    /\ last.path = "inserted_in_current"
    /\ last.ref = <<-1, 0, 1>>
    /\ Len(current_route) = 3
    /\ dragging
    /\ drag_route_idx = -1

\* The route references of the store: -1 and the indices of committed.
RouteRefs(self) == {-1} \cup (0 .. (Len(self.routes) - 1))

RouteAt(self, r) == IF r = -1 THEN self.current_route ELSE self.routes[r + 1]

\* C13: for every route reference r (current or an index of committed), every
\* index i in 0..len(r) and every point p, insert_point_in_route(r, i, p)
\* followed by remove_point(r, i) leaves committed and current as they were.
C13_InsertThenRemove ==
    \A r \in RouteRefs(Self) :
        \A i \in 0 .. Len(RouteAt(Self, r)) :
            \A p \in GridPoints :
                LET inserted == insert_point_in_route(Self, r, i, p).self
                    T == remove_point(inserted, r, i).self
                IN  /\ Len(RouteAt(inserted, r)) = Len(RouteAt(Self, r)) + 1
                    /\ RouteAt(inserted, r)[i + 1] = p
                    /\ T.routes = routes
                    /\ T.current_route = current_route

\* remove_point has just taken a point out of a committed route that keeps
\* another point, on a store that also holds a current route.
C13_Witness ==
    /\ last.op = "remove_point"
    /\ last.path = "removed_from_route"
    /\ routes # <<>>
    /\ current_route # <<>>

\* C14: clear_all, from every reachable state, leaves committed empty and
\* current empty.
C14_ClearAll ==
    /\ LET T == clear_all(Self).self
       IN  T.routes = <<>> /\ T.current_route = <<>>
    /\ last.op = "clear_all" => (routes = <<>> /\ current_route = <<>>)

\* Clear All has just run during the drag of the second point of a committed
\* route.
C14_Witness ==
    /\ last.op = "clear_all"
    /\ dragging
    /\ drag_route_idx = 0
    /\ drag_point_idx = 1

\* C15: for every grid point p with integer coordinates, negative, zero and
\* positive, converting p to its canvas position and the position back to
\* grid coordinates gives p on both axes.
C15_RoundTrip == calc.fn = "canvas_to_coord" => calc.coord = calc.point

\* A point with a negative x and a positive odd y has been converted to the
\* canvas and back.
C15_Witness ==
    /\ calc.fn = "canvas_to_coord"
    /\ calc.point[1] < 0
    /\ calc.point[2] > 0
    /\ calc.point[2] % 2 = 1
    /\ calc.canvas = <<calc.point[1] * 20, calc.point[2] * 20>>

\* C16: a pointerUp in Dragging with a target that denotes an existing point
\* overwrites exactly that point with toGrid(pos): the number of committed
\* routes, the length of every route and every other point are unchanged.
C16_DragCommitFrame ==
    (dragging /\ ValidPointRef(Self, drag_route_idx, drag_point_idx)) =>
        \A c \in Clicks :
            LET target == <<drag_route_idx, drag_point_idx>>
                T == on_left_release(Self, c[1], c[2]).self
            IN  /\ Len(T.routes) = Len(routes)
                /\ \A r \in RouteRefs(Self) : Len(RouteAt(T, r)) = Len(RouteAt(Self, r))
                /\ PointAt(T, target) = ToGrid(c)
                /\ \A q \in PointRefs(Self) :
                       q # target => PointAt(T, q) = PointAt(Self, q)

\* A pointerUp has just moved the second point of a committed route to a
\* grid point that differs from the route's first point, while the current
\* route holds a point.
C16_Witness ==
    /\ last.op = "on_left_release"
    /\ last.path = "moved"
    /\ last.ref = <<0, 1>>
    /\ routes[1][2] # routes[1][1]
    /\ current_route # <<>>
    /\ ~dragging

\* C17: a pointerMove handled by on_drag while the session is Dragging
\* changes neither committed nor current nor the drag state and its target.
C17_DragMotionFrame ==
    [][(dragging /\ last'.op = "on_drag")
         => (/\ routes' = routes
             /\ current_route' = current_route
             /\ dragging' = dragging
             /\ drag_route_idx' = drag_route_idx
             /\ drag_point_idx' = drag_point_idx)]_vars

\* on_drag has just handled a pointerMove during the drag of a point of a
\* committed route.
C17_Witness ==
    /\ last.op = "on_drag"
    /\ last.path = "dragging"
    /\ dragging
    /\ drag_route_idx >= 0
    /\ ValidPointRef(Self, drag_route_idx, drag_point_idx)

\* An operation that called extract_route_features ran last; calc.extracted
\* is what it returned for the toggles calc.toggles.
Extracted == calc.fn \in {"extract_route_features", "run_analysis", "compare_all"}

\* The positions in committed of the routes of at least two points, and the
\* row a route at position k stands in.
Qualifying == {k \in 1 .. Len(routes) : Len(routes[k]) >= 2}

RowOf(k) == Cardinality({j \in Qualifying : j <= k})

\* The first four columns of a row are the first and the last point of the
\* route.
RowIsOf(row, route) ==
    /\ <<row[1], row[2]>> = <<num_int(route[1][1]), num_int(route[1][2])>>
    /\ <<row[3], row[4]>> =
           <<num_int(route[Len(route)][1]), num_int(route[Len(route)][2])>>

\* C18: extract_route_features returns one row and one label per qualifying
\* route: the committed routes of at least 2 points in store order, each
\* labelled "Route k" with k its 1-based position in committed, then a row
\* labelled "Current Route" exactly when current has at least 2 points; with
\* no qualifying route both the matrix and the label list are empty.
C18_RowsAndLabels ==
    Extracted =>
        LET e == calc.extracted
            n == Cardinality(Qualifying) + (IF Len(current_route) >= 2 THEN 1 ELSE 0)
        IN  /\ Len(e.features) = n
            /\ Len(e.route_labels) = n
            /\ \A k \in Qualifying :
                   /\ e.route_labels[RowOf(k)] = "Route " \o ToString(k)
                   /\ RowIsOf(e.features[RowOf(k)], routes[k])
            /\ IF Len(current_route) >= 2
               THEN /\ e.route_labels[n] = "Current Route"
                    /\ RowIsOf(e.features[n], current_route)
               ELSE \A j \in 1 .. n : e.route_labels[j] # "Current Route"
            /\ n = 0 => (e.features = <<>> /\ e.route_labels = <<>>)

\* extract_route_features has just run on a store whose second committed
\* route qualifies behind a route of one point, with a qualifying current
\* route.
C18_Witness ==
    /\ calc.fn = "extract_route_features"
    /\ Len(routes) = 2
    /\ Len(routes[1]) = 1
    /\ Len(routes[2]) >= 2
    /\ Len(current_route) >= 2
    /\ calc.extracted.route_labels = <<"Route 2", "Current Route">>

\* The number of columns for the toggles (middle, thirds, euclidean).
Columns(toggles) ==
    5 + (IF toggles[1] THEN 2 ELSE 0) + (IF toggles[2] THEN 4 ELSE 0)
      + (IF toggles[3] THEN 1 ELSE 0)

\* C19: for every combination of the three toggles, every row of one
\* extract_route_features call has as many columns as feature_names, namely
\* 5 + 2 * [middle] + 4 * [thirds] + [euclidean], and feature_names lists the
\* five base names, then the middle, the thirds and the euclidean names; with
\* all toggles off and two qualifying routes the result is a 2 x 5 matrix.
C19_Rectangular ==
    Extracted =>
        LET e == calc.extracted
        IN  /\ Len(e.feature_names) = Columns(calc.toggles)
            /\ \A j \in 1 .. Len(e.features) :
                   Len(e.features[j]) = Columns(calc.toggles)
            /\ e.feature_names =
                   <<"start_x", "start_y", "end_x", "end_y", "length">>
                   \o (IF calc.toggles[1] THEN <<"middle_x", "middle_y">> ELSE <<>>)
                   \o (IF calc.toggles[2]
                       THEN <<"third1_x", "third1_y", "third2_x", "third2_y">>
                       ELSE <<>>)
                   \o (IF calc.toggles[3] THEN <<"euclidean_dist">> ELSE <<>>)

\* extract_route_features has just run with all toggles off on a committed
\* route of length 5 and a current route of length 13 and returned a 2 x 5
\* matrix.
C19_Witness ==
    /\ calc.fn = "extract_route_features"
    /\ calc.toggles = <<FALSE, FALSE, FALSE>>
    /\ Len(calc.extracted.features) = 2
    /\ calc.extracted.features[1][5] = num_int(5)
    /\ calc.extracted.features[2][5] = num_int(13)
    /\ Len(calc.extracted.features[1]) = 5
    /\ Len(calc.extracted.features[2]) = 5

\* C20: feature scaling and the reduction algorithms are never given a
\* feature matrix of fewer than 2 rows: Run Analysis and Compare All both
\* reject such a matrix before they call them.
C20_AtLeastTwoRows ==
    Extracted => \A j \in 1 .. Len(calc.fitted) : Len(calc.fitted[j]) >= 2

\* The first and the last point of a route of at least one point.
FirstPoint(route) == as_point(route[1])

LastPoint(route) == as_point(route[Len(route)])

\* C22: for every route of at least one point, repeated points and trailing
\* zero-length segments included, get_point_at_distance(route, 0) is the
\* first point of the route and get_point_at_distance(route,
\* calculate_route_length(route)) is its last point.
C22_EndPoints ==
    (calc.fn = "get_point_at_distance" /\ calc.route # <<>>) =>
        /\ calc.target_distance = Zero => calc.point = FirstPoint(calc.route)
        /\ calc.target_distance = calculate_route_length(calc.route) =>
               calc.point = LastPoint(calc.route)

\* The length of the first n segments of a route, as the loop of
\* get_point_at_distance adds it up.
CumulativeTo(route, n) == calculate_route_length(SubSeq(route, 1, n + 1))

\* The first segment (1-based) of a route whose end is at least distance d
\* along the route, for 0 < d <= calculate_route_length(route).
FirstSegment(route, d) ==
    CHOOSE i \in 1 .. Len(route) - 1 :
        /\ num_le(d, CumulativeTo(route, i))
        /\ \A j \in 1 .. i - 1 : ~num_le(d, CumulativeTo(route, j))

\* A + ((d - cumulative) / segLen) * (B - A) on segment i of the route.
PointOn(route, i, d) ==
    interpolate(route[i], route[i + 1],
                num_div(num_sub(d, CumulativeTo(route, i - 1)),
                        distance_between(route[i], route[i + 1])))

\* C23: for a route of at least 2 points and 0 < d <= length(route),
\* get_point_at_distance returns A + ((d - cumulative) / segLen) * (B - A) on
\* the first segment A, B whose cumulative end is at least d; on
\* [(0,0),(10,0),(10,10)] with d = 15 it returns (10, 5).
C23_Interpolated ==
    (/\ calc.fn = "get_point_at_distance"
     /\ Len(calc.route) >= 2
     /\ num_sign(calc.target_distance) > 0
     /\ num_le(calc.target_distance, calculate_route_length(calc.route))) =>
        /\ calc.point =
               PointOn(calc.route, FirstSegment(calc.route, calc.target_distance),
                       calc.target_distance)
        /\ (/\ calc.route = <<<<0, 0>>, <<10, 0>>, <<10, 10>>>>
            /\ calc.target_distance = num_int(15)) =>
               calc.point = as_point(<<10, 5>>)

\* get_point_at_distance has returned (10, 5) for d = 15 on
\* [(0,0),(10,0),(10,10)], a point of the second segment.
C23_Witness ==
    /\ calc.fn = "get_point_at_distance"
    /\ calc.route = <<<<0, 0>>, <<10, 0>>, <<10, 10>>>>
    /\ calc.target_distance = num_int(15)
    /\ calc.point = as_point(<<10, 5>>)

\* Exact arithmetic on floats, for the geometry of a result: a signed
\* natural [neg, m] stands for (-1)^neg * m * 2^e at a scale e the floats
\* involved all reach.
LowestExponent(numbers) == CHOOSE e \in {x.e : x \in numbers} : \A x \in numbers : e <= x.e

\* x - y for floats x and y, at the scale e.
ExactDifference(x, y, e) ==
    LET mx == big_shl(x.m, x.e - e)
        my == big_shl(y.m, y.e - e)
    IN  IF x.neg # y.neg THEN [neg |-> x.neg, m |-> big_add(mx, my)]
        ELSE IF big_cmp(mx, my) = 0 THEN [neg |-> FALSE, m |-> <<>>]
        ELSE IF big_cmp(mx, my) > 0 THEN [neg |-> x.neg, m |-> big_sub(mx, my)]
        ELSE [neg |-> ~x.neg, m |-> big_sub(my, mx)]

\* a * k for a signed natural a and an int k.
ExactTimes(a, k) ==
    IF k = 0 \/ a.m = <<>> THEN [neg |-> FALSE, m |-> <<>>]
    ELSE [neg |-> (a.neg # (k < 0)), m |-> big_mul_small(a.m, abs(k))]

\* The point p is on the line through the grid points a and b:
\* (p.x - a.x) * (b.y - a.y) = (p.y - a.y) * (b.x - a.x).
CollinearAt(p, a, b, e) ==
    ExactTimes(ExactDifference(p[1], num_int(a[1]), e), b[2] - a[2])
        = ExactTimes(ExactDifference(p[2], num_int(a[2]), e), b[1] - a[1])

Collinear(p, a, b) ==
    CollinearAt(p, a, b, LowestExponent({p[1], p[2], num_int(a[1]), num_int(a[2])}))

\* The number v is between the ints a and b.
Between(v, a, b) ==
    \/ num_le(num_int(a), v) /\ num_le(v, num_int(b))
    \/ num_le(num_int(b), v) /\ num_le(v, num_int(a))

\* The point p lies on the segment from grid point a to grid point b.
OnSegment(p, a, b) ==
    /\ Between(p[1], a[1], b[1])
    /\ Between(p[2], a[2], b[2])
    /\ Collinear(p, a, b)

\* C24: the arc-length midpoint get_point_at_distance(route, length / 2) of
\* a route of at least 2 points lies on some segment of the route: between
\* the segment's endpoints on both axes and collinear with them; for
\* [(0,0),(3,4)] the length is 5 and the midpoint is (1.5, 2.0).
C24_MidpointOnRoute ==
    (calc.fn = "get_middle_point" /\ Len(calc.route) >= 2) =>
        /\ \E i \in 1 .. Len(calc.route) - 1 :
               OnSegment(calc.point, calc.route[i], calc.route[i + 1])
        /\ calc.route = <<<<0, 0>>, <<3, 4>>>> =>
               /\ calculate_route_length(calc.route) = num_int(5)
               /\ calc.point = <<num_div(num_int(3), num_int(2)), num_int(2)>>

\* The points of a route in the opposite order.
Reverse(route) == [i \in 1 .. Len(route) |-> route[Len(route) + 1 - i]]

\* C25: calculate_route_length(route) equals the length of the reversed
\* route, for every route, and is 0 for every route of fewer than 2 points.
C25_ReverseLength ==
    calc.fn = "calculate_route_length" =>
        /\ calc.total_length = calculate_route_length(Reverse(calc.route))
        /\ Len(calc.route) < 2 => calc.total_length = Zero

\* The segments (1-based) of a route that have length zero.
ZeroSegments(route) ==
    {i \in 1 .. Len(route) - 1 : distance_between(route[i], route[i + 1]) = Zero}

\* C28: get_point_at_distance gives every degenerate input a value: the
\* first point for d <= 0, the last point for d greater than the length of
\* the route, the first endpoint A of a zero-length segment the match falls
\* on (no division), the point of a one-point route and (0, 0) for the empty
\* route.
C28_Degenerate ==
    calc.fn = "get_point_at_distance" =>
        /\ calc.route = <<>> => calc.point = as_point(<<0, 0>>)
        /\ Len(calc.route) = 1 => calc.point = FirstPoint(calc.route)
        /\ (calc.route # <<>> /\ num_sign(calc.target_distance) <= 0) =>
               calc.point = FirstPoint(calc.route)
        /\ (/\ calc.route # <<>>
            /\ ~num_le(calc.target_distance, calculate_route_length(calc.route))) =>
               calc.point = LastPoint(calc.route)
        /\ \A i \in ZeroSegments(calc.route) :
               point_in_segment(calc.route[i], calc.route[i + 1], Zero,
                                CumulativeTo(calc.route, i - 1), calc.target_distance)
                   = as_point(calc.route[i])

\* get_point_at_distance was asked for distance 2 on a route of length 1 that
\* ends with a zero-length segment, and returned the last point.
C28_Witness ==
    /\ calc.fn = "get_point_at_distance"
    /\ calc.route = <<<<0, 0>>, <<1, 0>>, <<1, 0>>>>
    /\ calc.target_distance = num_int(2)
    /\ calc.point = as_point(<<1, 0>>)

\* C26: for every number n >= 2 of samples and every requested value, the
\* neighbor count that run_dimensionality_analysis passes to UMAP and to
\* Isomap is at most n - 1.
C26_NeighborsBelowSamples ==
    (calc.fn = "run_analysis" /\ calc.path = "run_dimensionality_analysis") =>
        \A j \in 1 .. Len(calc.reducers) :
            (/\ calc.reducers[j].algorithm \in {"UMAP", "Isomap"}
             /\ Len(calc.fitted[1]) >= 2) =>
                calc.reducers[j].n_neighbors <= Len(calc.fitted[1]) - 1

\* The operations of the analysis, and a step that runs one of them.
AnalysisOperations ==
    {"extract_route_features", "run_analysis", "compare_all", "apply_clustering",
     "highlight_routes"}

AnalysisStep == calc.fn = "store" /\ calc'.fn \in AnalysisOperations

\* C21: no operation of the analysis changes the route store: feature
\* extraction, running a reduction, comparing all algorithms, applying
\* clustering and highlighting routes leave committed, current and the drag
\* state as they are, whether the collaborator returns a result or raises a
\* failure.
C21_AnalysisKeepsStore ==
    [][AnalysisStep =>
           UNCHANGED <<routes, current_route, shared, dragging, drag_route_idx,
                       drag_point_idx>>]_vars

\* Applying clustering has failed on a store with a committed and a current
\* route, after a clustering that succeeded.
C21_Witness ==
    /\ calc.fn = "apply_clustering"
    /\ calc.path = "error"
    /\ last_clustering_results # NoResults
    /\ routes # <<>>
    /\ current_route # <<>>

\* C27: highlighting draws each committed route in the colour of the cluster
\* computed for that same route, also when a removal that deleted a
\* committed route, a Clear All or a New Route was handled between applying
\* the clustering and highlighting: no reference by index taken before the
\* committed indices changed is used after it.
C27_HighlightFollowsRoutes ==
    (calc.fn = "highlight_routes" /\ calc.path = "highlighted") =>
        \A i \in 1 .. Len(last_clustering_results.labels) :
            last_clustering_results.at[i] >= 0 =>
                calc.routes[last_clustering_results.at[i] + 1]
                    = last_clustering_results.colors[i]

\* ---------------------------------------------------------------------------
\* generate_cluster_colors called on a list of cluster labels.
\* ---------------------------------------------------------------------------

\* Cluster labels as the clusterers give them: -1 for noise, naturals for
\* clusters, not always contiguous.
LabelValues == {-1, 0, 1, 5}

RECURSIVE LabelsOfLen(_)
LabelsOfLen(n) ==
    IF n = 0 THEN {<<>>}
    ELSE {Append(l, c) : l \in LabelsOfLen(n - 1), c \in LabelValues}

\* One point per cluster for as many clusters as there are colours, with and
\* without a noise point, and for one cluster more than there are colours.
ManyClusters ==
    {[i \in 1 .. Len(cluster_colors) |-> i - 1],
     [i \in 1 .. Len(cluster_colors) + 1 |-> i - 2],
     [i \in 1 .. Len(cluster_colors) + 1 |-> i - 1],
     [i \in 1 .. Len(cluster_colors) + 2 |-> i - 2]}

ColorInputs == UNION {LabelsOfLen(n) : n \in 0 .. MaxLen} \cup ManyClusters

InitColors ==
    /\ Constructed
    /\ \E cluster_labels \in ColorInputs :
           calc = [fn |-> "cluster_labels", cluster_labels |-> cluster_labels]

GenerateClusterColors ==
    /\ calc.fn = "cluster_labels"
    /\ calc' = [fn |-> "generate_cluster_colors",
                cluster_labels |-> calc.cluster_labels,
                colors |-> generate_cluster_colors(calc.cluster_labels)]
    /\ UNCHANGED objvars

NextColors == GenerateClusterColors

SpecColors == InitColors /\ [][NextColors]_vars

NonNoiseClusters(cluster_labels) ==
    {cluster_labels[i] : i \in 1 .. Len(cluster_labels)} \ {-1}

\* C29: generate_cluster_colors returns one colour per cluster label, in the
\* order of the labels; every label -1 gets the gray; equal labels get equal
\* colours; and with at most 15 clusters other than noise, different labels
\* get different colours and no cluster other than noise gets the gray.
C29_ColorsFollowLabels ==
    calc.fn = "generate_cluster_colors" =>
        LET labels == calc.cluster_labels
            colors == calc.colors
            points == 1 .. Len(labels)
        IN  /\ DOMAIN colors = points
            /\ \A i \in points : labels[i] = -1 => colors[i] = "#808080"
            /\ \A i, j \in points : labels[i] = labels[j] => colors[i] = colors[j]
            /\ Cardinality(NonNoiseClusters(labels)) <= 15 =>
                   /\ \A i, j \in points :
                          labels[i] # labels[j] => colors[i] # colors[j]
                   /\ \A i \in points : labels[i] # -1 => colors[i] # "#808080"

\* Fifteen clusters and a noise point: the noise point is gray and the
\* fifteenth cluster has the last colour of the palette.
C29_Witness ==
    /\ calc.fn = "generate_cluster_colors"
    /\ calc.cluster_labels = [i \in 1 .. 16 |-> i - 2]
    /\ calc.colors[1] = "#808080"
    /\ calc.colors[2] = "#FF6B6B"
    /\ calc.colors[16] = "#A9DFBF"

\* A step that calls extract_route_features on the store.
ExtractStep == calc.fn = "store" /\ calc'.fn = "extract_route_features"

\* The call of the step runs on the committed routes, the current route and
\* the toggles of the call whose result was kept.
SameAsKept ==
    /\ calc.kept # <<>>
    /\ calc.kept[1].routes = routes
    /\ calc.kept[1].current_route = current_route
    /\ calc.kept[1].toggles = calc'.toggles

RouteLen(self, r) ==
    IF r = -1 THEN Len(self.current_route)
    ELSE IF 0 <= r /\ r < Len(self.routes) THEN Len(self.routes[r + 1])
    ELSE None

\* C31: a reference returned by find_point_at_position or
\* find_line_at_position is valid in the store it was searched in: the route
\* reference is -1 or an index of a committed route, a point index is below
\* the route's length, and a segment is (i, i + 1) with i + 1 below the
\* route's length, so the insertion index i + 1 lies in 1 .. length - 1.
C31_ReturnedReferencesValid ==
    \A c \in Clicks :
        LET point == find_point_at_position(Self, c[1], c[2])
            line == find_line_at_position(Self, c[1], c[2])
        IN  /\ point # NotFound =>
                   /\ Len(point) = 2
                   /\ point[1] \in -1 .. (Len(routes) - 1)
                   /\ point[2] \in 0 .. (RouteLen(Self, point[1]) - 1)
            /\ line # NotFound =>
                   /\ Len(line) = 3
                   /\ line[1] \in -1 .. (Len(routes) - 1)
                   /\ line[2] >= 0
                   /\ line[3] = line[2] + 1
                   /\ line[3] \in 1 .. (RouteLen(Self, line[1]) - 1)

\* A pointerDown has just found the second point of a committed route, whose
\* only segment a search finds as (0, 1).
C31_Witness ==
    /\ last.op = "on_left_click"
    /\ last.path = "drag"
    /\ last.ref = <<0, 1>>
    /\ \E c \in Clicks : find_line_at_position(Self, c[1], c[2]) = <<0, 0, 1>>

\* The start and end points of a route, which are its first four feature
\* values; <<>> for a route without points.
EndsOf(route) ==
    IF route = <<>> THEN <<>> ELSE <<route[1], route[Len(route)]>>

Insertions == {"inserted_in_current", "inserted_in_route"}

\* C32: a right-click that inserts a point changes the first and the last
\* point of no route: the committed routes stay as many, and every committed
\* route and the current route start and end where they did.
C32_InsertionKeepsEnds ==
    \A c \in Clicks :
        LET result == on_right_click(Self, c[1], c[2])
        IN  result.path \in Insertions =>
                /\ Len(result.self.routes) = Len(routes)
                /\ \A k \in 1 .. Len(routes) :
                       EndsOf(result.self.routes[k]) = EndsOf(routes[k])
                /\ EndsOf(result.self.current_route) = EndsOf(current_route)

\* A right-click has just inserted a point into the only segment of a
\* committed route, which has three points and still runs from (0, 0) to
\* (1, 0).
C32_Witness ==
    /\ last.op = "on_right_click"
    /\ last.path = "inserted_in_route"
    /\ last.ref = <<0, 0, 1>>
    /\ Len(routes[1]) = 3
    /\ EndsOf(routes[1]) = <<<<0, 0>>, <<1, 0>>>>

\* The route a reference names, in the given object.
RouteOf(self, r) == IF r = -1 THEN self.current_route ELSE self.routes[r + 1]

\* C33: a right-click that inserts a point creates no segment of length
\* zero: the point inserted at index i + 1 of the hit route differs from the
\* points before and after it in that route.
C33_InsertionNoZeroSegment ==
    \A c \in Clicks :
        LET result == on_right_click(Self, c[1], c[2])
            route == RouteOf(result.self, result.ref[1])
            at == result.ref[2] + 2
        IN  result.path \in Insertions =>
                /\ route[at] = ToGrid(c)
                /\ route[at] # route[at - 1]
                /\ route[at] # route[at + 1]

\* C34: a left click that adds a point stacks it on no existing point:
\* whenever on_left_click appends toGrid(pos) to the current route, neither
\* the current route nor a committed route already holds a point equal to it.
C34_AddedPointNotStacked ==
    \A c \in Clicks :
        on_left_click(Self, c[1], c[2]).path = "add" =>
            \A q \in PointRefs(Self) : PointAt(Self, q) # ToGrid(c)

\* C35: Undo Last Point removes exactly the last point of a current route
\* that has points, leaving the committed routes and the earlier points of
\* the current route as they are; with an empty current route it changes
\* nothing; it never removes a point of a committed route.
C35_UndoLastPoint ==
    LET T == undo_last_point(Self).self
    IN  /\ T.routes = routes
        /\ current_route # <<>> =>
               T.current_route = SubSeq(current_route, 1, Len(current_route) - 1)
        /\ current_route = <<>> => T = Self

\* Undo Last Point has just removed the second point of the current route
\* next to a committed route, and the first point is still there.
C35_Witness ==
    /\ last.op = "undo_last_point"
    /\ last.path = "removed"
    /\ Len(current_route) = 1
    /\ routes # <<>>

\* C36: a pointerUp handled while no drag is in progress changes neither the
\* committed routes nor the current route nor the drag state.
C36_IdleReleaseNoOp ==
    ~dragging =>
        \A c \in Clicks :
            LET T == on_left_release(Self, c[1], c[2]).self
            IN  /\ T.routes = routes
                /\ T.current_route = current_route
                /\ T.dragging = dragging
                /\ T.drag_route_idx = drag_route_idx
                /\ T.drag_point_idx = drag_point_idx

\* A pointerUp has just been handled with no drag in progress, on a store
\* with a committed route and a current route.
C36_Witness ==
    /\ last.op = "on_left_release"
    /\ last.path = "idle"
    /\ ~dragging
    /\ routes # <<>>
    /\ current_route # <<>>

\* A step that handles a Highlight Routes request.
HighlightStep == calc.fn = "store" /\ calc'.fn = "highlight_routes"

\* C37: highlighting has an effect only after a clustering has been applied:
\* as long as no Apply Clustering has completed successfully, there are no
\* clustering results, a Highlight Routes request draws no route and changes
\* nothing of the object, and only an Apply Clustering that succeeds ends
\* that.
C37_HighlightNeedsClustering ==
    [][last_clustering_results = NoResults =>
           /\ HighlightStep =>
                  /\ calc'.path = "warning"
                  /\ calc'.routes = <<>>
                  /\ calc'.current_route = ""
                  /\ UNCHANGED objvars
           /\ last_clustering_results' # NoResults =>
                  /\ calc'.fn = "apply_clustering"
                  /\ calc'.path = "clustered"]_vars

\* Highlight Routes has just been asked for on drawn routes, after a New
\* Route, with no clustering results, and has drawn nothing.
C37_Witness ==
    /\ calc.fn = "highlight_routes"
    /\ calc.path = "warning"
    /\ calc.routes = <<>>
    /\ last_clustering_results = NoResults
    /\ last.op = "start_new_route"
    /\ routes # <<>>

\* ---------------------------------------------------------------------------
\* The snap to the grid: a device position is converted to grid coordinates
\* and the grid point back to its device position.
\* ---------------------------------------------------------------------------

DeviceRange == (0 - MaxDevice) .. MaxDevice

InitSnap ==
    /\ Constructed
    /\ \E position \in DeviceRange \X DeviceRange :
           calc = [fn |-> "position", canvas |-> position]

SnapToGrid ==
    /\ calc.fn = "position"
    /\ LET coord_x == canvas_to_coord_x(calc.canvas[1])
           coord_y == canvas_to_coord_y(calc.canvas[2])
       IN  calc' = [fn |-> "snap",
                    canvas |-> calc.canvas,
                    coord |-> <<coord_x, coord_y>>,
                    snapped |-> <<coord_to_canvas_x(coord_x), coord_to_canvas_y(coord_y)>>]
    /\ UNCHANGED objvars

NextSnap == SnapToGrid

SpecSnap == InitSnap /\ [][NextSnap]_vars

\* C38: snapping moves a device position by at most half a cell on each
\* axis: the device position of the grid point that an integer device
\* coordinate snaps to is at most grid_size / 2 away from it, 10 for the cell
\* of 20, also for a coordinate halfway between two grid lines.
C38_SnapWithinHalfCell ==
    calc.fn = "snap" =>
        \A axis \in 1 .. 2 :
            /\ 2 * abs(calc.snapped[axis] - calc.canvas[axis]) <= grid_size
            /\ abs(calc.snapped[axis] - calc.canvas[axis]) <= 10

\* A position halfway between grid lines on both axes has been snapped: 10
\* lies between 0 and 20 and goes to 0, 30 between 20 and 40 and goes to 40,
\* each half a cell away.
C38_Witness ==
    /\ calc.fn = "snap"
    /\ calc.canvas = <<10, 30>>
    /\ calc.coord = <<0, 2>>
    /\ calc.snapped = <<0, 40>>

\* ---------------------------------------------------------------------------
\* The hit tests called on a store and a device position.
\* ---------------------------------------------------------------------------

\* Routes with a segment of length 5 cells (100 pixels), a segment of one
\* cell, a repeated point and a single point.
HitRoutes ==
    {<<<<0, 0>>, <<3, 4>>>>,
     <<<<0, 0>>, <<1, 0>>>>,
     <<<<1, 0>>, <<1, 0>>, <<0, 1>>>>,
     <<<<2, 2>>>>}

HitCurrent == {<<>>, <<<<3, 0>>, <<0, 4>>>>}

\* The positions of the pointer events, and positions 8 pixels from the
\* segment (0, 0)-(3, 4), on it and beyond its end.
HitPositions ==
    Clicks \cup {<<26, 48>>, <<40, 40>>, <<29, 52>>, <<30, 40>>, <<63, 84>>, <<70, 90>>}

InitHit ==
    /\ routes \in UNION {[1 .. n -> HitRoutes] : n \in 0 .. 2}
    /\ current_route \in HitCurrent
    /\ shared = {}
    /\ dragging = FALSE
    /\ drag_route_idx = None
    /\ drag_point_idx = None
    /\ last = [op |-> "store", path |-> "built", ref |-> NotFound]
    /\ results_windows = <<>>
    /\ last_clustering_results = NoResults
    /\ pow_above \in BOOLEAN
    /\ \E position \in HitPositions : calc = [fn |-> "position", position |-> position]

FindPointAtPosition ==
    /\ calc.fn = "position"
    /\ calc' = [fn |-> "find_point_at_position", position |-> calc.position,
                found |-> find_point_at_position(Self, calc.position[1], calc.position[2])]
    /\ UNCHANGED objvars

FindLineAtPosition ==
    /\ calc.fn = "position"
    /\ calc' = [fn |-> "find_line_at_position", position |-> calc.position,
                found |-> find_line_at_position(Self, calc.position[1], calc.position[2])]
    /\ UNCHANGED objvars

NextHit == FindPointAtPosition \/ FindLineAtPosition

SpecHit == InitHit /\ [][NextHit]_vars

\* C11: find_line_at_position returns the first segment, in the scan order
\* current route then committed routes by index, each by segment index, whose
\* clamped-projection distance to the position is at most the tolerance; a
\* segment with equal endpoints never matches, a route of fewer than two
\* points has no segment, and the result is none only when no segment matches.
C11_FirstSegment ==
    calc.fn = "find_line_at_position" =>
        LET found == calc.found
            segs == SegmentRefs(Self)
        IN  IF \E s \in segs : SegmentMatches(Self, s, calc.position)
            THEN /\ Len(found) = 3
                 /\ <<found[1], found[2]>> \in segs
                 /\ found[3] = found[2] + 1
                 /\ SegmentMatches(Self, <<found[1], found[2]>>, calc.position)
                 /\ \A s \in segs :
                        ScanBefore(s, <<found[1], found[2]>>)
                            => ~SegmentMatches(Self, s, calc.position)
            ELSE found = NotFound

====
